---- MODULE Spec2Model ----
(***************************************************************************)
(* A model of the gunkls language server: the incremental package loader   *)
(* (lsp/loader), the file-lifecycle handlers (lsp/files.go) and the        *)
(* request dispatcher (lsp/lsp.go).                                        *)
(*                                                                         *)
(* Package nodes are heap objects (pointers in the Go code); the tracked   *)
(* set l.pkgs, the cache and the Imports maps hold node identifiers.       *)
(* File contents are abstracted to what the loader observes of them:       *)
(* whether they parse, their package clause, the names they declare, the   *)
(* packages they import and the imported names they reference.             *)
(***************************************************************************)
EXTENDS Integers, Sequences, FiniteSets, TLC

(***************************************************************************)
(* The workspace: package directories, their import paths and IDL files.   *)
(***************************************************************************)
Pkgs == {"a", "b", "c"}

PkgOrder == <<"a", "b", "c">>

DirOf == [a |-> "/ws/a", b |-> "/ws/b", c |-> "/ws/c"]

PathOf == [a |-> "x.io/a", b |-> "x.io/b", c |-> "x.io/c"]

AllFiles == [a |-> <<"/ws/a/1.gunk", "/ws/a/2.gunk">>,
             b |-> <<"/ws/b/1.gunk">>,
             c |-> <<"/ws/c/1.gunk">>]

Range(s) == {s[i] : i \in 1..Len(s)}

FileSet == UNION {Range(AllFiles[p]) : p \in Pkgs}

\* filepath.Dir(path), as the package directory the path lies in
FileDir(f) == CHOOSE p \in Pkgs : f \in Range(AllFiles[p])

Dirs == {DirOf[p] : p \in Pkgs}

ImportPaths == {PathOf[p] : p \in Pkgs}

\* an importable host package outside the workspace that holds no IDL file
NoGunkPath == "x.io/nogunk"

\* an import path no package exists for
MissingPath == "x.io/missing"

\* a host package from outside the module's domain-qualified paths
HostPath == "time"

PkgOfPath(path) == CHOOSE p \in Pkgs : PathOf[p] = path

PkgOfDir(dir) == CHOOSE p \in Pkgs : DirOf[p] = dir

(***************************************************************************)
(* File contents.                                                          *)
(***************************************************************************)
Content(parse, name, decls, imports, refs) ==
    [parse |-> parse, name |-> name, decls |-> decls,
     imports |-> imports, refs |-> refs, fields |-> <<>>]

\* a file with a syntax error
KBad == Content(FALSE, "", {}, <<>>, <<>>)

\* package p; declares X
KX == Content(TRUE, "p", {"X"}, <<>>, <<>>)

\* package p; X renamed to Y, a record with one field that has no tag
KY ==
    [Content(TRUE, "p", {"Y"}, <<>>, <<>>) EXCEPT
        !.fields = <<[names |-> 1, tag |-> FALSE, wellFormed |-> TRUE, pb |-> "none",
                      pbNum |-> 0, json |-> ""]>>]

\* package q (another package clause); declares X, a record with one field
\* that has no tag
KQ ==
    [Content(TRUE, "q", {"X"}, <<>>, <<>>) EXCEPT
        !.fields = <<[names |-> 1, tag |-> FALSE, wellFormed |-> TRUE, pb |-> "none",
                      pbNum |-> 0, json |-> ""]>>]

\* package p; declares X; imports t and references t.X
KUse(t) == Content(TRUE, "p", {"X"}, <<PathOf[t]>>, << <<PathOf[t], "X">> >>)

\* package p; declares X; imports the host package and references time.Time
KTime == Content(TRUE, "p", {"X"}, <<HostPath>>, << <<HostPath, "Time">> >>)

\* package p; declares X; imports the package that holds no IDL file
KNoGunk == Content(TRUE, "p", {"X"}, <<NoGunkPath>>, << <<NoGunkPath, "X">> >>)

\* what each IDL file holds on disk while it exists there
DiskText == [f \in FileSet |->
               CASE f = "/ws/a/1.gunk" -> KX
                 [] f = "/ws/a/2.gunk" -> KX
                 [] f = "/ws/b/1.gunk" -> KUse("a")
                 [] OTHER -> KUse("b")]

\* the contents an editor buffer of file f may hold
Buffers(f) ==
    CASE f = "/ws/a/1.gunk" -> {KY, KBad, KUse("b")}
      [] f = "/ws/a/2.gunk" -> {KQ}
      [] f = "/ws/b/1.gunk" -> {KUse("a")}
      [] OTHER -> {KUse("b"), KTime, KNoGunk}

(***************************************************************************)
(* Package nodes and the loader.                                           *)
(***************************************************************************)
Untracked == 0
Dirty == 1
Building == 2
Open == 3

UnknownError == 0
ListError == 1
ParseError == 2
TypeError == 3
ValidateError == 13

NoTypes == [set |-> FALSE, syms |-> {}]

TypesOf(syms) == [set |-> TRUE, syms |-> syms]

\* an Error: File it is reported for, the file At whose coordinates its range
\* is given, the Span the range covers, Kind and Msg
Err(file, at, span, kind, msg) ==
    [File |-> file, At |-> at, Span |-> span, Kind |-> kind, Msg |-> msg]

\* NewGunkPackage(pkg, state): a node wrapping one package of the host resolver
NewGunkPackage(lpkg, state) ==
    [PkgPath |-> lpkg.PkgPath, GoDir |-> lpkg.GoDir, PkgErrors |-> lpkg.Errors,
     Dir |-> "", GunkFiles |-> <<>>, GunkSyntax |-> <<>>, Name |-> "",
     Errors |-> <<>>, Types |-> NoTypes, State |-> state,
     Imports |-> <<>>]

\* resetPackage that keeps the error list
resetPackageKeepErrors(n) ==
    [n EXCEPT !.GunkSyntax = <<>>, !.Types = NoTypes, !.PkgErrors = <<>>]

\* resetPackage: syntax, errors, types and the host package's errors are cleared;
\* Dir, GunkFiles, State and Imports are kept
resetPackage(n) ==
    [n EXCEPT !.GunkSyntax = <<>>, !.Errors = <<>>, !.Types = NoTypes,
              !.PkgErrors = <<>>]

\* filepath.Glob(dir/*.gunk): the IDL files on disk in dir, sorted by name
Glob(D, dir) ==
    IF dir \notin Dirs THEN <<>>
    ELSE SelectSeq(AllFiles[PkgOfDir(dir)], LAMBDA f : f \in D.gunk)

\* findGunkFiles: Dir from the host files when not yet set, GunkFiles from disk
findGunkFiles(D, n) ==
    LET dir == IF n.GoDir # "" /\ n.Dir = "" THEN n.GoDir ELSE n.Dir
    IN  [n EXCEPT !.Dir = dir, !.GunkFiles = Glob(D, dir)]

\* os.ReadDir(dir): entry names in sorted order ("0.go" < "*.gunk" < "z.go")
ReadDir(D, p) ==
    (IF "0.go" \in D.go[p] THEN <<"0.go">> ELSE <<>>)
    \o Glob(D, DirOf[p])
    \o (IF "z.go" \in D.go[p] THEN <<"z.go">> ELSE <<>>)

IsGo(name) == name \in {"0.go", "z.go"}

\* addFakeFile: walks the entries in order; stops without a placeholder at the
\* first .go entry, and with one at the first .gunk entry
RECURSIVE addFakeFileFrom(_, _)
addFakeFileFrom(infos, i) ==
    IF i > Len(infos) THEN FALSE
    ELSE IF IsGo(infos[i]) THEN FALSE
    ELSE IF infos[i] \in FileSet THEN TRUE
    ELSE addFakeFileFrom(infos, i + 1)

addFakeFile(D, p) == addFakeFileFrom(ReadDir(D, p), 1)

\* addFakeFiles: the placeholder overlay for every directory of the module
addFakeFiles(D) == {p \in Pkgs : addFakeFile(D, p)}

\* the loader of a server that has not created one yet
NoLoader ==
    [cache |-> <<>>, fakeInit |-> FALSE, fakeFiles |-> {}, mem |-> <<>>,
     heap |-> <<>>, pkgs |-> <<>>, panic |-> FALSE, loads |-> <<>>]

\* a local variable: With([x \in {v} |-> e]) is e with x the value v, computed once
With(f) == f[CHOOSE x \in DOMAIN f : TRUE]

HasKey(f, k) == k \in DOMAIN f

\* the values of a map
Values(f) == {f[k] : k \in DOMAIN f}

Put(f, k, v) == [x \in (DOMAIN f) \cup {k} |-> IF x = k THEN v ELSE f[x]]

\* a delete that removes nothing
DeleteNothing(f, k) == f

Delete(f, k) ==
    [x \in (DOMAIN f) \ {k} |-> f[x]]

\* a fresh node identifier
NewId(heap) == CHOOSE i \in 1..(Cardinality(DOMAIN heap) + 1) : i \notin DOMAIN heap

(***************************************************************************)
(* The host resolver (golang.org/x/tools/go/packages.Load) under the       *)
(* placeholder overlay.                                                    *)
(***************************************************************************)
AllPattern == "/ws/..."

HostHasGo(L, D, p) == D.go[p] # {} \/ p \in L.fakeFiles

HostPkg(L, D, p) ==
    IF HostHasGo(L, D, p)
    THEN [PkgPath |-> PathOf[p], GoDir |-> DirOf[p], Errors |-> <<>>]
    ELSE [PkgPath |-> PathOf[p], GoDir |-> "", Errors |-> <<"no Go files">>]

packagesLoad(L, D, pattern) ==
    IF pattern = AllPattern
    THEN LET ps == SelectSeq(PkgOrder, LAMBDA p : HostHasGo(L, D, p))
         IN  [i \in 1..Len(ps) |-> HostPkg(L, D, ps[i])]
    ELSE IF pattern \in ImportPaths THEN <<HostPkg(L, D, PkgOfPath(pattern))>>
    ELSE IF pattern \in Dirs THEN <<HostPkg(L, D, PkgOfDir(pattern))>>
    ELSE IF pattern = NoGunkPath
    THEN <<[PkgPath |-> NoGunkPath, GoDir |-> "/mod/nogunk", Errors |-> <<>>]>>
    ELSE <<[PkgPath |-> pattern, GoDir |-> "", Errors |-> <<"cannot find package">>]>>

(***************************************************************************)
(* Loader.Load                                                             *)
(***************************************************************************)
LoadRec(path, hit, ret, err) == [path |-> path, hit |-> hit, ret |-> ret, err |-> err]

\* lines 236-248: wrap, scan and cache the host packages from index i on
RECURSIVE LoadPkgs(_, _, _, _, _)
LoadPkgs(L, D, lpkgs, i, acc) ==
    IF i > Len(lpkgs) THEN [L |-> L, pkgs |-> acc]
    ELSE With([pkg \in {findGunkFiles(D, NewGunkPackage(lpkgs[i], Untracked))} |->
             IF Len(pkg.GunkFiles) = 0 /\ Len(lpkgs[i].Errors) = 0
             THEN LoadPkgs(L, D, lpkgs, i + 1, acc)
             ELSE With([id \in {NewId(L.heap)} |->
                      LoadPkgs([L EXCEPT !.heap = Put(L.heap, id, pkg),
                                         !.cache = Put(L.cache, pkg.PkgPath, id)],
                               D, lpkgs, i + 1, Append(acc, id))])])

\* Load that drops the cache entry it has just served
LoadEvict(L, D, path) ==
    IF HasKey(L.cache, path)
    THEN IF Len(L.heap[L.cache[path]].PkgErrors) > 0
         THEN [L |-> [L EXCEPT !.loads = Append(@, LoadRec(path, TRUE, <<>>, TRUE))],
               pkgs |-> <<>>, err |-> TRUE]
         ELSE [L |-> [L EXCEPT !.loads =
                         Append(@, LoadRec(path, TRUE, <<L.cache[path]>>, FALSE)),
                               !.cache = Delete(@, path)],
               pkgs |-> <<L.cache[path]>>, err |-> FALSE]
    ELSE With([L1 \in {IF L.fakeInit THEN L
              ELSE [L EXCEPT !.fakeInit = TRUE, !.fakeFiles = addFakeFiles(D)]} |->
         With([r \in {LoadPkgs(L1, D, packagesLoad(L1, D, path), 1, <<>>)} |->
             [L |-> [r.L EXCEPT !.loads = Append(@, LoadRec(path, FALSE, r.pkgs, FALSE))],
              pkgs |-> r.pkgs, err |-> FALSE]])])

Load(L, D, path) ==
    IF HasKey(L.cache, path)
    THEN IF Len(L.heap[L.cache[path]].PkgErrors) > 0
         THEN [L |-> [L EXCEPT !.loads = Append(@, LoadRec(path, TRUE, <<>>, TRUE))],
               pkgs |-> <<>>, err |-> TRUE]
         ELSE [L |-> [L EXCEPT !.loads =
                         Append(@, LoadRec(path, TRUE, <<L.cache[path]>>, FALSE))],
               pkgs |-> <<L.cache[path]>>, err |-> FALSE]
    ELSE With([L1 \in {IF L.fakeInit THEN L
              ELSE [L EXCEPT !.fakeInit = TRUE, !.fakeFiles = addFakeFiles(D)]} |->
         With([r \in {LoadPkgs(L1, D, packagesLoad(L1, D, path), 1, <<>>)} |->
             [L |-> [r.L EXCEPT !.loads = Append(@, LoadRec(path, FALSE, r.pkgs, FALSE))],
              pkgs |-> r.pkgs, err |-> FALSE]])])

(***************************************************************************)
(* Loader.ParsePackage, the type check it runs (go/types with the loader   *)
(* as Importer) and Loader.Import.                                         *)
(***************************************************************************)
Panic(L) == [L EXCEPT !.panic = TRUE]

SetNode(L, id, n) == [L EXCEPT !.heap = Put(L.heap, id, n)]

AddErr(L, id, e) == [L EXCEPT !.heap[id].Errors = Append(@, e)]

\* index of file f in a file list, 0 when absent
IndexOf(files, f) ==
    IF f \in Range(files) THEN CHOOSE i \in 1..Len(files) : files[i] = f /\ \A j \in 1..(i - 1) : files[j] # f
    ELSE 0

\* the source parser.ParseFile reads: the override, else the disk
HasSource(L, D, f) == HasKey(L.mem, f) \/ f \in D.gunk

SourceOf(L, D, f) == IF HasKey(L.mem, f) THEN L.mem[f] ELSE DiskText[f]

\* lines 193-214: parse every file of the list; a file that cannot be read is
\* logged only, a file with syntax errors gets a ParseError, and only a file
\* that parsed adds a syntax tree
RECURSIVE ParseFiles(_, _, _, _, _)
ParseFiles(L, D, n, i, bad) ==
    IF i > Len(n.GunkFiles) THEN [n |-> n, bad |-> bad]
    ELSE LET f == n.GunkFiles[i]
         IN  IF ~HasSource(L, D, f) THEN ParseFiles(L, D, n, i + 1, bad)
             ELSE LET c == SourceOf(L, D, f)
                  IN  IF ~c.parse
                      THEN ParseFiles(L, D,
                               [n EXCEPT !.Errors = Append(@, Err(f, f, "pos", ParseError, "syntax error"))],
                               i + 1, bad)
                      ELSE ParseFiles(L, D,
                               [n EXCEPT !.GunkSyntax = Append(@, [file |-> f, c |-> c]),
                                         !.Name = IF @ = "" THEN c.name ELSE @],
                               i + 1, bad \/ (n.Name # "" /\ n.Name # c.name))

\* lines 215-222: one Validate error per listed file, located through the
\* syntax tree at the same index; indexing past the trees panics
RECURSIVE BadPkgName(_, _, _)
BadPkgName(L, id, i) ==
    LET n == L.heap[id]
    IN  IF i > Len(n.GunkFiles) THEN L
        ELSE IF i > Len(n.GunkSyntax) THEN Panic(L)
        ELSE BadPkgName(AddErr(L, id, Err(n.GunkFiles[i], n.GunkSyntax[i].file, "name",
                                          ValidateError, "found more than one package name")),
                        id, i + 1)

\* lines 234-256: the checker's Error callback
typeError(L, id, file, msg) ==
    LET n == L.heap[id]
        j == IndexOf(n.GunkFiles, file)
    IN  IF j = 0 THEN AddErr(L, id, Err(file, file, "raw", TypeError, msg))
        ELSE IF j > Len(n.GunkSyntax) THEN Panic(L)
        ELSE IF n.GunkSyntax[j].file # file
        THEN AddErr(L, id, Err(file, file, "raw", TypeError, msg))
        ELSE AddErr(L, id, Err(file, file, "node", TypeError, msg))

HasDot(path) == path # HostPath


NoImport == [ok |-> FALSE, node |-> 0]

\* the names the type surface of an import holds when it is looked up
Surface(L, imp) == IF imp.node = 0 THEN {"Time"} ELSE L.heap[imp.node].Types.syms

RECURSIVE ParsePackage(_, _, _, _)
RECURSIVE Import(_, _, _)
RECURSIVE collectImports(_, _, _, _, _, _, _)
RECURSIVE collectObjects(_, _, _, _, _, _)

\* go/types: resolve each import of one file through the Importer, once per path
collectImports(L, D, id, file, imports, k, imp) ==
    IF L.panic \/ k > Len(imports) THEN [L |-> L, imp |-> imp]
    ELSE IF HasKey(imp, imports[k]) THEN collectImports(L, D, id, file, imports, k + 1, imp)
    ELSE With([r \in {Import(L, D, imports[k])} |->
             IF r.L.panic THEN [L |-> r.L, imp |-> imp]
             ELSE IF r.err \/ ~r.types.ok
             THEN collectImports(typeError(r.L, id, file, "could not import"), D, id,
                                 file, imports, k + 1, Put(imp, imports[k], NoImport))
             ELSE collectImports(r.L, D, id, file, imports, k + 1,
                                 Put(imp, imports[k], r.types))])

\* go/types: file by file, the imports are resolved and then the file's
\* declarations enter the package scope
collectObjects(L, D, id, syn, i, imp) ==
    IF L.panic \/ i > Len(syn) THEN [L |-> L, imp |-> imp]
    ELSE With([r \in {collectImports(L, D, id, syn[i].file, syn[i].c.imports, 1, imp)} |->
             collectObjects(IF r.L.panic THEN r.L
                            ELSE [r.L EXCEPT !.heap[id].Types.syms = @ \cup syn[i].c.decls],
                            D, id, syn, i + 1, r.imp)])

\* go/types: every qualified reference is looked up in the imported surface
RECURSIVE resolveRefs(_, _, _, _, _, _)
resolveRefs(L, id, syn, i, k, imp) ==
    IF L.panic \/ i > Len(syn) THEN L
    ELSE IF k > Len(syn[i].c.refs) THEN resolveRefs(L, id, syn, i + 1, 1, imp)
    ELSE LET ref == syn[i].c.refs[k]
         IN  IF ~HasKey(imp, ref[1]) \/ ~imp[ref[1]].ok
                \/ ref[2] \in Surface(L, imp[ref[1]])
             THEN resolveRefs(L, id, syn, i, k + 1, imp)
             ELSE resolveRefs(typeError(L, id, syn[i].file, "not declared by package"),
                              id, syn, i, k + 1, imp)

\* check.Files(pkg.GunkSyntax)
checkFiles(L, D, id) ==
    With([r \in {collectObjects(L, D, id, L.heap[id].GunkSyntax, 1, <<>>)} |->
        resolveRefs(r.L, id, L.heap[id].GunkSyntax, 1, 1, r.imp)])

\* lines 273-285: the import links of the package, one Load per import
RECURSIVE UpdateImports(_, _, _, _, _, _)
UpdateImports(L, D, id, syn, i, k) ==
    IF i > Len(syn) THEN L
    ELSE IF k > Len(syn[i].c.imports) THEN UpdateImports(L, D, id, syn, i + 1, 1)
    ELSE With([r \in {Load(L, D, syn[i].c.imports[k])} |->
             IF Len(r.pkgs) = 1
             THEN UpdateImports([r.L EXCEPT !.heap[id].Imports =
                                     Put(@, syn[i].c.imports[k], r.pkgs[1])],
                                D, id, syn, i, k + 1)
             ELSE UpdateImports(r.L, D, id, syn, i, k + 1)])

ParsePackage(L, D, id, checkTypes) ==
    With([L0 \in {[L EXCEPT !.cache = Put(L.cache, L.heap[id].Dir, id)]} |->
    With([p \in {ParseFiles(L0, D, [L.heap[id] EXCEPT !.Name = ""], 1, FALSE)} |->
    With([L2 \in {IF p.bad THEN BadPkgName(SetNode(L0, id, p.n), id, 1)
         ELSE SetNode(L0, id, p.n)} |->
        IF L2.panic THEN L2
        ELSE IF Len(L2.heap[id].Errors) > 0 \/ ~checkTypes THEN L2
        ELSE With([L4 \in {checkFiles([L2 EXCEPT !.heap[id].Types = TypesOf({})], D, id)} |->
                 IF L4.panic THEN L4
                 ELSE IF Len(L4.heap[id].Errors) > 0 THEN L4
                 ELSE UpdateImports([L4 EXCEPT !.heap[id].Imports = <<>>], D, id,
                                    L4.heap[id].GunkSyntax, 1, 1)])])])])

ImportRet(L, types, err) == [L |-> L, types |-> types, err |-> err]

\* Import that resolves every path through Load
ImportThroughLoad(L, D, path) ==
    With([r \in {Load(L, D, path)} |->
        IF r.err THEN ImportRet(r.L, NoImport, TRUE)
        ELSE IF Len(r.pkgs) # 1 THEN ImportRet(Panic(r.L), NoImport, FALSE)
        ELSE IF Len(r.L.heap[r.pkgs[1]].PkgErrors) # 0 THEN ImportRet(r.L, NoImport, TRUE)
        ELSE With([L2 \in {IF r.L.heap[r.pkgs[1]].State = Dirty
                              \/ ~r.L.heap[r.pkgs[1]].Types.set
                           THEN ParsePackage(SetNode(r.L, r.pkgs[1],
                                                     resetPackage(r.L.heap[r.pkgs[1]])),
                                             D, r.pkgs[1], TRUE)
                           ELSE r.L} |->
                 ImportRet(L2, [ok |-> L2.heap[r.pkgs[1]].Types.set, node |-> r.pkgs[1]],
                           FALSE)])])

Import(L, D, path) ==
    IF ~HasDot(path) THEN ImportRet(L, [ok |-> TRUE, node |-> 0], FALSE)
    ELSE With([r \in {Load(L, D, path)} |->
             IF r.err THEN ImportRet(r.L, NoImport, TRUE)
             ELSE IF Len(r.pkgs) # 1 THEN ImportRet(Panic(r.L), NoImport, FALSE)
             ELSE LET id == r.pkgs[1]
                      n  == r.L.heap[id]
                  IN  IF Len(n.PkgErrors) # 0 THEN ImportRet(r.L, NoImport, TRUE)
                      ELSE With([L2 \in {IF n.State = Dirty \/ ~n.Types.set
                                THEN ParsePackage(SetNode(r.L, id, resetPackage(n)),
                                                  D, id, TRUE)
                                ELSE r.L} |->
                               ImportRet(L2, [ok |-> L2.heap[id].Types.set, node |-> id],
                                         FALSE)])])

(***************************************************************************)
(* Loader.validatePackage: the struct-tag checks on the one record a file  *)
(* declares.  A field is [names, tag, wellFormed, pb, pbNum, json]: the    *)
(* number of names, whether it has a tag and the tag is well formed, what  *)
(* the tag holds under the key pb ("none", "empty", "nan" or "num", and    *)
(* the number), and what it holds under the key json.                      *)
(***************************************************************************)
\* the range tag.Pos()..tag.End() of the tag of the i-th field
TagSpan(i) == "tag" \o ToString(i)

RECURSIVE validateFields(_, _, _, _, _, _, _)
validateFields(L, id, path, fields, i, usedSequences, jsonNamesSeen) ==
    IF i > Len(fields) THEN L
    ELSE LET f    == fields[i]
             next(L2, u, j) == validateFields(L2, id, path, fields, i + 1, u, j)
             bad(msg) == AddErr(L, id, Err(path, path, TagSpan(i), ParseError, msg))
         IN  IF ~f.tag THEN next(L, usedSequences, jsonNamesSeen)
             ELSE IF ~f.wellFormed THEN next(bad("bad syntax for struct tag"), usedSequences, jsonNamesSeen)
             ELSE IF f.pb \in {"none", "empty"} THEN next(L, usedSequences, jsonNamesSeen)
             ELSE IF f.json # "" /\ f.json \in jsonNamesSeen
             THEN next(bad("json tag seen twice"), usedSequences, jsonNamesSeen)
             ELSE LET j2 == IF f.json # "" THEN jsonNamesSeen \cup {f.json} ELSE jsonNamesSeen
                  IN  IF f.pb = "nan" THEN next(bad("invalid sequence number"), usedSequences, j2)
                      ELSE IF f.pbNum \in usedSequences
                      THEN next(bad("sequence number seen twice"), usedSequences, j2)
                      ELSE next(L, usedSequences \cup {f.pbNum}, j2)

RECURSIVE validatePackageFrom(_, _, _)
validatePackageFrom(L, id, i) ==
    LET n == L.heap[id]
    IN  IF i > Len(n.GunkSyntax) THEN L
        ELSE LET path   == n.GunkFiles[i]
                 fields == n.GunkSyntax[i].c.fields
             IN  IF \E k \in 1..Len(fields) : fields[k].names < 1
                 THEN validatePackageFrom(
                          AddErr(L, id, Err(path, path, "field", ParseError,
                                            "anonymous struct fields are not supported")),
                          id, i + 1)
                 ELSE validatePackageFrom(validateFields(L, id, path, fields, 1, {}, {}),
                                          id, i + 1)

validatePackage(L, id) == validatePackageFrom(L, id, 1)

(***************************************************************************)
(* Loader.Errors                                                           *)
(***************************************************************************)
Code(kind) ==
    CASE kind = UnknownError -> "error"
      [] kind = ParseError -> "parse error"
      [] kind = TypeError -> "type error"
      [] kind = ValidateError -> "validate error"
      [] OTHER -> "error"

Diagnostic(e) == [Code |-> Code(e.Kind), Severity |-> 1, Message |-> e.Msg,
                  At |-> e.At, Span |-> e.Span]

RECURSIVE Diagnostics(_, _, _)
Diagnostics(errs, i, d) ==
    IF i > Len(errs) THEN d
    ELSE Diagnostics(errs, i + 1,
             Put(d, errs[i].File,
                 Append(IF HasKey(d, errs[i].File) THEN d[errs[i].File] ELSE <<>>,
                        Diagnostic(errs[i]))))

(***************************************************************************)
(* The formatter: formatStruct of lsp/format.go and Formatter.formatStruct  *)
(* of the configured formatter, on the fields of one record.               *)
(***************************************************************************)
\* what formatStruct leaves: the error and the field whose tag position it
\* names, whether it indexed past a list, and the fields
FormatRet(err, at, msg, panic, fields) ==
    [err |-> err, at |-> at, msg |-> msg, panic |-> panic, fields |-> fields]

\* lsp/format.go, lines 171-202: the numbers in use and the fields without one
RECURSIVE scanSequences(_, _, _, _)
scanSequences(fs, i, usedSequences, fieldsWithoutSequence) ==
    IF i > Len(fs)
    THEN [err |-> FALSE, at |-> 0, msg |-> "", used |-> usedSequences,
          without |-> fieldsWithoutSequence]
    ELSE IF ~fs[i].tag \/ fs[i].pb = "none"
    THEN scanSequences(fs, i + 1, usedSequences, Append(fieldsWithoutSequence, i))
    ELSE IF fs[i].pb = "empty"
    THEN [err |-> TRUE, at |-> i, msg |-> "struct field tag for pb was empty",
          used |-> usedSequences, without |-> fieldsWithoutSequence]
    ELSE IF fs[i].pb = "nan"
    THEN [err |-> TRUE, at |-> i, msg |-> "struct field tag for pb contains a non-number",
          used |-> usedSequences, without |-> fieldsWithoutSequence]
    ELSE scanSequences(fs, i + 1, Append(usedSequences, fs[i].pbNum), fieldsWithoutSequence)

\* missingSequences that takes no number for used
missingSequencesAll(n, usedSequences) == [i \in 1..n |-> i]

\* lines 204-216: the numbers 1..n that are not in use, ascending
missingSequences(n, usedSequences) ==
    SelectSeq([i \in 1..n |-> i], LAMBDA i : i \notin Range(usedSequences))

\* lines 220-234: the i-th field without a number gets the i-th missing number
formatStruct(fs) ==
    LET s == scanSequences(fs, 1, <<>>, <<>>)
        m == missingSequences(Len(fs), s.used)
    IN  IF s.err THEN FormatRet(TRUE, s.at, s.msg, FALSE, fs)
        ELSE IF Len(s.without) > Len(m) THEN FormatRet(FALSE, 0, "", TRUE, fs)
        ELSE FormatRet(FALSE, 0, "", FALSE,
                 [k \in 1..Len(fs) |->
                     IF k \in Range(s.without)
                     THEN [fs[k] EXCEPT !.tag = TRUE, !.pb = "num",
                                        !.pbNum = m[IndexOf(s.without, k)]]
                     ELSE fs[k]])

\* the lines of a documentation comment, each without its "// " marker:
\* prose, an empty line, a tag, a tag written one column to the right, and a
\* tag whose expression does not parse
DocLines == {"text", "", "+gunk A", " +gunk A", "+gunk ("}

\* strings.Split(comment.Text(), "\n"): leading empty lines go, a run of empty
\* lines becomes one, and the text ends with a newline
RECURSIVE TextLines(_, _, _)
TextLines(d, i, lines) ==
    IF i > Len(d)
    THEN IF lines # <<>> /\ lines[Len(lines)] = "" THEN lines ELSE Append(lines, "")
    ELSE IF d[i] # "" \/ (lines # <<>> /\ lines[Len(lines)] # "")
    THEN TextLines(d, i + 1, Append(lines, d[i]))
    ELSE TextLines(d, i + 1, lines)

\* part_001, lines 442-487: a line that starts with the marker opens a tag, a
\* line after a tag continues it, any other line is prose, trimmed, and
\* dropped when empty; a tag parses when its expression does and nothing but
\* empty lines continue it; strings.HasPrefix(line, "+gunk ") holds of the two
\* tag lines, and strings.TrimSpace moves the indented tag one column left
RECURSIVE SplitGunkTag(_, _, _, _)
SplitGunkTag(docLines, i, gunkTagLines, commentLines) ==
    IF i > Len(docLines)
    THEN [err  |-> \E k \in 1..Len(gunkTagLines) :
                      \/ gunkTagLines[k][1] = "+gunk ("
                      \/ \E j \in 2..Len(gunkTagLines[k]) : gunkTagLines[k][j] # "",
          doc  |-> commentLines,
          tags |-> [k \in 1..Len(gunkTagLines) |-> gunkTagLines[k][1]]]
    ELSE IF docLines[i] \in {"+gunk A", "+gunk ("}
    THEN SplitGunkTag(docLines, i + 1, Append(gunkTagLines, <<docLines[i]>>), commentLines)
    ELSE IF gunkTagLines # <<>>
    THEN SplitGunkTag(docLines, i + 1,
                      [gunkTagLines EXCEPT ![Len(gunkTagLines)] = Append(@, docLines[i])],
                      commentLines)
    ELSE IF docLines[i] = ""
    THEN SplitGunkTag(docLines, i + 1, gunkTagLines, commentLines)
    ELSE SplitGunkTag(docLines, i + 1, gunkTagLines,
                      Append(commentLines,
                             IF docLines[i] = " +gunk A" THEN "+gunk A" ELSE docLines[i]))

\* formatComment: a comment with tags is written again as its prose, an empty
\* line, and one line per tag; a comment without tags is left as it is
formatComment(d) ==
    LET s == SplitGunkTag(TextLines(d, 1, <<>>), 1, <<>>, <<>>)
    IN  IF s.err THEN [err |-> TRUE, doc |-> d]
        ELSE IF s.tags = <<>> THEN [err |-> FALSE, doc |-> d]
        ELSE [err |-> FALSE,
              doc |-> (IF s.doc # <<>> THEN Append(s.doc, "") ELSE <<>>) \o s.tags]

\* config.Config.Format: the switches PB and JSON
Configs == [PB : BOOLEAN, JSON : BOOLEAN]

\* part_000, lines 183-207: the numbers 1..n no field holds
RECURSIVE unusedFields(_, _, _)
unusedFields(fs, i, unused) ==
    IF i > Len(fs) THEN [err |-> FALSE, at |-> 0, msg |-> "", unused |-> unused]
    ELSE IF ~fs[i].tag \/ fs[i].pb = "none" THEN unusedFields(fs, i + 1, unused)
    ELSE IF fs[i].pb # "num"
    THEN [err |-> TRUE, at |-> i, msg |-> "struct field tag for pb contains a non-number",
          unused |-> unused]
    ELSE unusedFields(fs, i + 1, unused \ {fs[i].pbNum})

\* sort.Ints over the keys
RECURSIVE SortInts(_)
SortInts(S) ==
    IF S = {} THEN <<>>
    ELSE LET m == CHOOSE x \in S : \A y \in S : x <= y
         IN  <<m>> \o SortInts(S \ {m})

\* snaker.CamelToSnake(field.Names[0].Name)
CamelToSnake == "snake_name"

\* lines 213-262: the tag of every field with one name and a readable tag is
\* written again, pb first
RECURSIVE tagFields(_, _, _, _, _)
tagFields(cfg, fs, i, missingNum, out) ==
    IF i > Len(fs) THEN FormatRet(FALSE, 0, "", FALSE, out)
    ELSE IF (fs[i].tag /\ ~fs[i].wellFormed) \/ fs[i].names # 1
    THEN tagFields(cfg, fs, i + 1, missingNum, Append(out, fs[i]))
    ELSE LET json == IF cfg.JSON THEN CamelToSnake ELSE fs[i].json
             put(pb, n) == [fs[i] EXCEPT !.tag = TRUE, !.pb = pb, !.pbNum = n,
                                         !.json = json]
         IN  IF cfg.PB
             THEN tagFields(cfg, fs, i + 1, missingNum, Append(out, put("num", i)))
             ELSE IF fs[i].tag /\ fs[i].pb # "none"
             THEN tagFields(cfg, fs, i + 1, missingNum,
                            Append(out, put(fs[i].pb, fs[i].pbNum)))
             ELSE IF missingNum = <<>>
             THEN FormatRet(FALSE, 0, "", TRUE, out \o SubSeq(fs, i, Len(fs)))
             ELSE tagFields(cfg, fs, i + 1, Tail(missingNum),
                            Append(out, put("num", Head(missingNum))))

\* Formatter.formatStruct
Formatter_formatStruct(cfg, fs) ==
    LET s == IF cfg.PB THEN [err |-> FALSE, at |-> 0, msg |-> "", unused |-> {}]
             ELSE unusedFields(fs, 1, 1..Len(fs))
    IN  IF s.err THEN FormatRet(TRUE, s.at, s.msg, FALSE, fs)
        ELSE tagFields(cfg, fs, 1, SortInts(s.unused), <<>>)

\* the configuration with both switches off
DefaultConfig == [PB |-> FALSE, JSON |-> FALSE]

\* nothing has been formatted or validated
NoResult ==
    [op |-> "none", cfg |-> DefaultConfig, err |-> FALSE, at |-> 0, msg |-> "",
     panic |-> FALSE, fields |-> <<>>, doc |-> <<>>, diags |-> <<>>]

\* a package whose file /ws/a/1.gunk declares one record with the fields fs
RecordPackage(fs) ==
    SetNode(NoLoader, 1,
            [NewGunkPackage([PkgPath |-> "x.io/a", GoDir |-> "", Errors |-> <<>>], Dirty)
                EXCEPT !.Dir = "/ws/a", !.Name = "p",
                       !.GunkFiles = <<"/ws/a/1.gunk">>,
                       !.GunkSyntax = <<[file |-> "/ws/a/1.gunk",
                                         c |-> [KX EXCEPT !.fields = fs]]>>])

\* the diagnostics Errors makes of what validatePackage records on the record
ValidateRecord(fs) ==
    LET es == validatePackage(RecordPackage(fs), 1).heap[1].Errors
    IN  [i \in 1..Len(es) |-> Diagnostic(es[i])]

\* Errors without the empty list it starts every listed file with
ErrorsNoEmpty(L, D, id) ==
    IF L.heap[id].State # Dirty THEN [L |-> L, some |-> FALSE, diags |-> <<>>]
    ELSE With([L1 \in {ParsePackage(SetNode(L, id, resetPackage(L.heap[id])), D, id, TRUE)} |->
         With([L2 \in {IF L1.panic THEN L1 ELSE validatePackage(L1, id)} |->
             IF L2.panic THEN [L |-> L2, some |-> FALSE, diags |-> <<>>]
             ELSE [L |-> L2, some |-> TRUE,
                   diags |-> Diagnostics(L2.heap[id].Errors, 1, <<>>)]])])

\* returns the loader, whether a diagnostics map was produced, and the map
\* Errors that analyses the package whatever its state
ErrorsAnyState(L, D, id) ==
    With([L1 \in {ParsePackage(SetNode(L, id, resetPackage(L.heap[id])), D, id, TRUE)} |->
    With([L2 \in {IF L1.panic THEN L1 ELSE validatePackage(L1, id)} |->
        IF L2.panic THEN [L |-> L2, some |-> FALSE, diags |-> <<>>]
        ELSE [L |-> L2, some |-> TRUE,
              diags |-> Diagnostics(L2.heap[id].Errors, 1,
                            [f \in Range(L2.heap[id].GunkFiles) |-> <<>>])]])])

Errors(L, D, id) ==
    IF L.heap[id].State # Dirty THEN [L |-> L, some |-> FALSE, diags |-> <<>>]
    ELSE With([L1 \in {ParsePackage(SetNode(L, id, resetPackage(L.heap[id])), D, id, TRUE)} |->
         With([L2 \in {IF L1.panic THEN L1 ELSE validatePackage(L1, id)} |->
             IF L2.panic THEN [L |-> L2, some |-> FALSE, diags |-> <<>>]
             ELSE [L |-> L2, some |-> TRUE,
                   diags |-> Diagnostics(L2.heap[id].Errors, 1,
                                 [f \in Range(L2.heap[id].GunkFiles) |-> <<>>])]])])

(***************************************************************************)
(* Loader.AddFile, Loader.UpdateFile, Loader.CloseFile                     *)
(***************************************************************************)
\* index in pkgs of the first package whose Dir is dir, 0 when none
Covering(L, pkgs, dir) ==
    IF \E i \in 1..Len(pkgs) : L.heap[pkgs[i]].Dir = dir
    THEN CHOOSE i \in 1..Len(pkgs) :
            /\ L.heap[pkgs[i]].Dir = dir
            /\ \A j \in 1..(i - 1) : L.heap[pkgs[j]].Dir # dir
    ELSE 0

\* the file is appended to the file list unless it is listed
WithFile(n, path) ==
    IF path \in Range(n.GunkFiles) THEN n
    ELSE [n EXCEPT !.GunkFiles = Append(@, path)]

\* the loop over pkgs that closes AddFile (relink = the edited node),
\* UpdateFile and CloseFile (relink = 0): importers in state Open become Dirty
RECURSIVE MarkImporters(_, _, _, _, _)
MarkImporters(L, pkgs, i, pkgPath, relink) ==
    IF i > Len(pkgs) THEN L
    ELSE LET p == L.heap[pkgs[i]]
         IN  IF HasKey(p.Imports, pkgPath)
             THEN MarkImporters(
                      SetNode(L, pkgs[i],
                          [p EXCEPT !.Imports = IF relink # 0 THEN Put(@, pkgPath, relink) ELSE @,
                                    !.State = IF @ = Open THEN Dirty ELSE @]),
                      pkgs, i + 1, pkgPath, relink)
             ELSE MarkImporters(L, pkgs, i + 1, pkgPath, relink)

OpRet(L, pkgs, err) == [L |-> L, pkgs |-> pkgs, err |-> err]

\* host: what the host resolver answers for the file path of a package that
\* is not tracked ("err": it fails, "one": one package, "none": no package)
HostAnswers == {"err", "one", "none"}

AddFile(L, D, pkgs, path, src, host) ==
    LET L1  == [L EXCEPT !.mem = Put(L.mem, path, src)]
        dir == DirOf[FileDir(path)]
        i   == Covering(L1, pkgs, dir)
    IN  IF i = 0
        THEN \* lines 272-323: the node built here is bound to a variable of the
             \* inner block; the outer pkg is still nil at line 325
             LET infos   == ReadDir(D, FileDir(path))
                 addFake == \A k \in 1..Len(infos) : ~IsGo(infos[k])
                 L2      == IF addFake THEN [L1 EXCEPT !.fakeFiles = @ \cup {FileDir(path)}]
                            ELSE L1
             IN  IF addFake /\ ~L1.fakeInit THEN OpRet(Panic(L1), pkgs, FALSE)
                 ELSE IF host # "one" THEN OpRet(L2, pkgs, TRUE)
                 ELSE OpRet(Panic(L2), pkgs, FALSE)
        ELSE LET id == pkgs[i]
                 n  == L1.heap[id]
                 n2 == WithFile([n EXCEPT !.State = IF @ = Untracked THEN Dirty ELSE @], path)
                 L2 == [SetNode(L1, id, n2) EXCEPT !.cache = Delete(@, n2.PkgPath)]
             IN  OpRet(MarkImporters(L2, pkgs, 1, n2.PkgPath, id), pkgs, FALSE)

UpdateFileKeepState(L, D, pkgs, path, src, host) ==
    LET L1  == [L EXCEPT !.mem = Put(L.mem, path, src)]
        dir == DirOf[FileDir(path)]
        i   == Covering(L1, pkgs, dir)
    IN  IF i = 0
        THEN AddFile(L, D, pkgs, path, src, host)
        ELSE LET id == pkgs[i]
                 n  == L1.heap[id]
                 n2 == WithFile(findGunkFiles(D, n), path)
                 L2 == [SetNode(L1, id, n2) EXCEPT !.cache = Delete(@, n2.PkgPath)]
             IN  OpRet(MarkImporters(L2, pkgs, 1, n2.PkgPath, 0), pkgs, FALSE)

UpdateFile(L, D, pkgs, path, src, host) ==
    LET L1  == [L EXCEPT !.mem = Put(L.mem, path, src)]
        dir == DirOf[FileDir(path)]
        i   == Covering(L1, pkgs, dir)
    IN  IF i = 0
        THEN \* AddFile either fails or panics for a package that is not tracked
             AddFile(L, D, pkgs, path, src, host)
        ELSE LET id == pkgs[i]
                 n  == L1.heap[id]
                 n2 == WithFile(findGunkFiles(D, [n EXCEPT !.State = Dirty]), path)
                 L2 == [SetNode(L1, id, n2) EXCEPT !.cache = Delete(@, n2.PkgPath)]
             IN  OpRet(MarkImporters(L2, pkgs, 1, n2.PkgPath, 0), pkgs, FALSE)

RemoveAt(s, i) == SubSeq(s, 1, i - 1) \o SubSeq(s, i + 1, Len(s))

\* CloseFile that drops the override only once a covering package is found
CloseFileLateDelete(L, D, pkgs, path) ==
    LET dir == DirOf[FileDir(path)]
        i   == Covering(L, pkgs, dir)
    IN  IF i = 0 THEN OpRet(L, pkgs, TRUE)
        ELSE LET L1    == [L EXCEPT !.mem = Delete(L.mem, path)]
                 id    == pkgs[i]
                 n     == L1.heap[id]
                 n2    == findGunkFiles(D, resetPackage([n EXCEPT !.State = Dirty]))
                 pkgs2 == IF Len(n2.GunkFiles) = 0 THEN RemoveAt(pkgs, i) ELSE pkgs
                 L2    == [SetNode(L1, id, n2) EXCEPT !.cache = Delete(@, n2.PkgPath)]
             IN  OpRet(MarkImporters(L2, pkgs2, 1, n2.PkgPath, 0), pkgs2, FALSE)

\* CloseFile that treats a file no tracked package covers as a package of its
\* own: it reports no error and drops the cache entry of the file's package
CloseFileNoCover(L, D, pkgs, path) ==
    LET L1  == [L EXCEPT !.mem = Delete(L.mem, path)]
        dir == DirOf[FileDir(path)]
        i   == Covering(L1, pkgs, dir)
    IN  IF i = 0
        THEN OpRet([L1 EXCEPT !.cache = Delete(@, PathOf[FileDir(path)])], pkgs, FALSE)
        ELSE LET id    == pkgs[i]
                 n     == L1.heap[id]
                 n2    == findGunkFiles(D, resetPackage([n EXCEPT !.State = Dirty]))
                 pkgs2 == IF Len(n2.GunkFiles) = 0 THEN RemoveAt(pkgs, i) ELSE pkgs
                 L2    == [SetNode(L1, id, n2) EXCEPT !.cache = Delete(@, n2.PkgPath)]
             IN  OpRet(MarkImporters(L2, pkgs2, 1, n2.PkgPath, 0), pkgs2, FALSE)

CloseFile(L, D, pkgs, path) ==
    LET L1  == [L EXCEPT !.mem = Delete(L.mem, path)]
        dir == DirOf[FileDir(path)]
        i   == Covering(L1, pkgs, dir)
    IN  IF i = 0 THEN OpRet(L1, pkgs, TRUE)
        ELSE LET id    == pkgs[i]
                 n     == L1.heap[id]
                 n2    == findGunkFiles(D, resetPackage([n EXCEPT !.State = Dirty]))
                 pkgs2 == IF Len(n2.GunkFiles) = 0 THEN RemoveAt(pkgs, i) ELSE pkgs
                 L2    == [SetNode(L1, id, n2) EXCEPT !.cache = Delete(@, n2.PkgPath)]
             IN  OpRet(MarkImporters(L2, pkgs2, 1, n2.PkgPath, 0), pkgs2, FALSE)

(***************************************************************************)
(* The server: LSP.Handle and the handlers of lsp/files.go.                *)
(***************************************************************************)
VARIABLES
    initialized,  \* LSP.initialized
    loaderSet,    \* LSP.loader # nil
    loader,       \* the Loader, with LSP.pkgs as loader.pkgs
    disk,         \* the file system: IDL files and host-language files
    crashed,      \* a handler panicked: the process is gone
    req,          \* the request handled last
    notes,        \* the PublishDiagnostics notifications of that request
    published,    \* per file, the diagnostics published for it last
    nreq,         \* requests handled so far
    ndisk,        \* disk events so far
    boot,         \* the disk as it was when the loader was created
    record,       \* the fields of the record handed to the formatter
    doc,          \* the lines of the record's documentation comment
    mu,           \* LSP.mu: the call of Handle that holds it, 0 when free
    pc,           \* where each call of Handle stands
    result        \* what the formatter or the validation made of it

vars == <<initialized, loaderSet, loader, disk, crashed, req, notes, published,
          nreq, ndisk, boot, record, doc, result, mu, pc>>

\* the server leaves the formatter's record alone
server == <<initialized, loaderSet, loader, disk, crashed, req, notes, published,
            nreq, ndisk, boot>>

\* the requests one run of the model handles
MaxRequests == 4

\* the files the environment removes from the disk in one run
MaxDiskEvents == 1

\* nodes no longer referenced from the tracked set, the cache or an import link
RECURSIVE Closure(_, _)
Closure(L, S) ==
    LET S2 == S \cup UNION {Values(L.heap[i].Imports) : i \in S}
    IN  IF S2 = S THEN S ELSE Closure(L, S2)

Collect(L) == [L EXCEPT !.heap = [i \in Closure(L, Range(L.pkgs) \cup Values(L.cache)) |-> L.heap[i]]]

\* the loop of OpenFile and UpdateFile over l.pkgs: Errors for every Dirty
\* package, one notification per key of the diagnostics map
RECURSIVE Pass(_, _, _, _, _)
Pass(L, D, pkgs, i, ns) ==
    IF L.panic \/ i > Len(pkgs) THEN [L |-> L, notes |-> ns]
    ELSE IF L.heap[pkgs[i]].State # Dirty THEN Pass(L, D, pkgs, i + 1, ns)
    ELSE With([r \in {Errors(L, D, pkgs[i])} |->
             Pass(r.L, D, pkgs, i + 1,
                  IF r.some
                  THEN ns \cup {[pkg |-> pkgs[i], file |-> f, diags |-> r.diags[f]] :
                                  f \in DOMAIN r.diags}
                  ELSE ns)])

\* LSP.OpenFile: AddFile, then the pass
OpenFile(L, D, f, c, host) ==
    With([op \in {AddFile(L, D, L.pkgs, f, c, host)} |->
        IF op.L.panic THEN [L |-> op.L, notes |-> {}, err |-> FALSE]
        ELSE With([p \in {Pass([op.L EXCEPT !.pkgs = op.pkgs], D, op.pkgs, 1, {})} |->
                 [L |-> p.L, notes |-> p.notes, err |-> op.err]])])

\* LSP.UpdateFile: UpdateFile, then the pass
ChangeFile(L, D, f, c, host) ==
    With([op \in {UpdateFile(L, D, L.pkgs, f, c, host)} |->
        IF op.L.panic THEN [L |-> op.L, notes |-> {}, err |-> FALSE]
        ELSE With([p \in {Pass([op.L EXCEPT !.pkgs = op.pkgs], D, op.pkgs, 1, {})} |->
                 [L |-> p.L, notes |-> p.notes, err |-> op.err]])])

\* LSP.CloseFile: CloseFile and no pass
CloseFileHandler(L, D, f) ==
    With([op \in {CloseFile(L, D, L.pkgs, f)} |->
        [L |-> [op.L EXCEPT !.pkgs = op.pkgs], notes |-> {}, err |-> op.err]])

\* the diagnostics published last, after the notifications ns
Publish(pub, ns) ==
    [f \in (DOMAIN pub) \cup {x.file : x \in ns} |->
        IF \E x \in ns : x.file = f THEN (CHOOSE x \in ns : x.file = f).diags
        ELSE pub[f]]

Tracked(L, f) == Covering(L, L.pkgs, DirOf[FileDir(f)]) # 0

Request(method, file, content, host) ==
    [method |-> method, file |-> file, content |-> content, host |-> host,
     tracked |-> IF file \in FileSet THEN Tracked(loader, file) ELSE FALSE,
     err |-> FALSE]

NoRequest ==
    [method |-> "none", file |-> "", content |-> KBad, host |-> "",
     tracked |-> FALSE, err |-> FALSE]

\* the state a handler leaves
Finish(r, h) ==
    /\ nreq' = nreq + 1
    /\ UNCHANGED <<initialized, loaderSet, disk, ndisk, boot, record, doc, result, mu, pc>>
    /\ IF h.L.panic
       THEN /\ crashed' = TRUE
            /\ req' = r
            /\ UNCHANGED <<loader, notes, published>>
       ELSE /\ crashed' = FALSE
            /\ req' = [r EXCEPT !.err = h.err]
            /\ loader' = Collect(h.L)
            /\ notes' = h.notes
            /\ published' = Publish(published, h.notes)

\* a handler that dereferences the nil loader
NilLoader(r) ==
    /\ req' = r
    /\ nreq' = nreq + 1
    /\ crashed' = TRUE
    /\ UNCHANGED <<initialized, loaderSet, disk, loader, notes, published, ndisk, boot,
                   record, doc, result, mu, pc>>

Ready == ~crashed /\ nreq < MaxRequests

Started == [loader EXCEPT !.loads = <<>>]

\* LSP.Load: the loader is created and the workspace loaded
LoadWorkspace(D) ==
    LET r == Load(NoLoader, D, AllPattern)
    IN  [r.L EXCEPT !.pkgs = r.pkgs]

\* MethodInitialize
InitializeParams == {"ok", "malformed", "nofolders", "baduri"}

Initialize(params) ==
    /\ Ready
    /\ req' = Request("initialize", "", KBad, params)
    /\ nreq' = nreq + 1
    /\ initialized' = TRUE
    /\ notes' = {}
    /\ UNCHANGED <<disk, crashed, published, ndisk, record, doc, result, mu, pc>>
    /\ IF initialized \/ params # "ok"
       THEN UNCHANGED <<loaderSet, loader, boot>>
       ELSE /\ loaderSet' = TRUE
            /\ loader' = Collect(LoadWorkspace(disk))
            /\ boot' = disk

\* MethodTextDocumentDidOpen -> LSP.OpenFile
DidOpen(f, c, host) ==
    /\ Ready
    /\ IF loaderSet /\ ~Tracked(loader, f) THEN TRUE ELSE host = "one"
    /\ LET r == Request("didOpen", f, c, host)
       IN  IF ~loaderSet THEN NilLoader(r)
           ELSE Finish(r, OpenFile(Started, disk, f, c, host))

\* MethodTextDocumentDidChange -> LSP.UpdateFile
DidChange(f, c, host) ==
    /\ Ready
    /\ IF loaderSet /\ ~Tracked(loader, f) THEN TRUE ELSE host = "one"
    /\ LET r == Request("didChange", f, c, host)
       IN  IF ~loaderSet THEN NilLoader(r)
           ELSE Finish(r, ChangeFile(Started, disk, f, c, host))

\* MethodTextDocumentDidClose -> LSP.CloseFile
DidClose(f) ==
    /\ Ready
    /\ LET r == Request("didClose", f, KBad, "")
       IN  IF ~loaderSet THEN NilLoader(r)
           ELSE Finish(r, CloseFileHandler(Started, disk, f))

\* the environment removes an IDL file from the disk
DiskRemove(f) ==
    /\ ~crashed
    /\ ndisk < MaxDiskEvents
    /\ f \in disk.gunk
    /\ disk' = [disk EXCEPT !.gunk = @ \ {f}]
    /\ ndisk' = ndisk + 1
    /\ req' = [NoRequest EXCEPT !.method = "diskRemove", !.file = f]
    /\ UNCHANGED <<initialized, loaderSet, loader, crashed, notes, published, nreq, boot,
                   record, doc, result, mu, pc>>

NoGo == [p \in Pkgs |-> {}]

\* the calls of Handle that may be in progress at once
MaxCalls == 2

\* the workspace on disk: with and without the IDL file of c, and with a
\* host-language file in c that sorts after the IDL file
DiskLayouts ==
    {[gunk |-> {"/ws/a/1.gunk", "/ws/b/1.gunk", "/ws/c/1.gunk"}, go |-> NoGo],
     [gunk |-> {"/ws/a/1.gunk", "/ws/b/1.gunk"}, go |-> NoGo],
     [gunk |-> {"/ws/a/1.gunk", "/ws/b/1.gunk", "/ws/c/1.gunk"},
      go |-> [NoGo EXCEPT !["c"] = {"z.go"}]]}

Init ==
    /\ initialized = FALSE
    /\ loaderSet = FALSE
    /\ loader = NoLoader
    /\ disk \in DiskLayouts
    /\ crashed = FALSE
    /\ req = NoRequest
    /\ notes = {}
    /\ published = <<>>
    /\ nreq = 0
    /\ ndisk = 0
    /\ boot = disk
    /\ record = <<>>
    /\ doc = <<>>
    /\ result = NoResult
    /\ mu = 0
    /\ pc = [t \in 1..MaxCalls |-> "idle"]

Next ==
    \/ \E params \in InitializeParams : Initialize(params)
    \/ \E f \in FileSet : \E c \in Buffers(f) : \E host \in HostAnswers : DidOpen(f, c, host)
    \/ \E f \in FileSet : \E c \in Buffers(f) : \E host \in HostAnswers : DidChange(f, c, host)
    \/ \E f \in FileSet : DidClose(f)
    \/ \E f \in FileSet : DiskRemove(f)

Spec == Init /\ [][Next]_vars

(***************************************************************************)
(* LSP.Handle with its lock: calls of Handle run side by side, each locks  *)
(* l.mu on entry and unlocks it, deferred, on return.  The handler of an   *)
(* edit is taken in two steps, the loader operation and the diagnostics    *)
(* pass, so that a call can be seen between the two.                       *)
(***************************************************************************)
\* the requests one run of the calls handles
MaxHandled == 3

\* the transport calls Handle with a request
Call(t) ==
    /\ ~crashed /\ nreq < MaxHandled
    /\ pc[t] = "idle"
    /\ pc' = [pc EXCEPT ![t] = "called"]
    /\ nreq' = nreq + 1
    /\ UNCHANGED <<initialized, loaderSet, loader, disk, crashed, req, notes, published,
                   ndisk, boot, record, doc, result, mu>>

\* l.mu.Lock() that does not wait
LockNoWait(t) ==
    /\ ~crashed
    /\ pc[t] = "called"
    /\ mu' = t
    /\ pc' = [pc EXCEPT ![t] = "locked"]
    /\ UNCHANGED <<server, record, doc, result>>

\* line 46: l.mu.Lock() returns when no call holds the lock
Lock(t) ==
    /\ ~crashed
    /\ pc[t] = "called" /\ mu = 0
    /\ mu' = t
    /\ pc' = [pc EXCEPT ![t] = "locked"]
    /\ UNCHANGED <<server, record, doc, result>>

\* lines 50-111: the request is decoded and the loader operation made:
\* the workspace load of Initialize, AddFile, UpdateFile or CloseFile
Mutate(t, method, f, c, host) ==
    /\ ~crashed
    /\ pc[t] = "locked"
    /\ IF method = "initialize" THEN host = "ok"
       ELSE IF loaderSet /\ ~Tracked(loader, f) THEN TRUE ELSE host = "one"
    /\ req' = Request(method, f, c, host)
    /\ UNCHANGED <<disk, notes, published, nreq, ndisk, record, doc, result, mu>>
    /\ IF method = "initialize"
       THEN /\ initialized' = TRUE
            /\ pc' = [pc EXCEPT ![t] = "mutated"]
            /\ UNCHANGED crashed
            /\ IF initialized THEN UNCHANGED <<loaderSet, loader, boot>>
               ELSE /\ loaderSet' = TRUE
                    /\ loader' = Collect(LoadWorkspace(disk))
                    /\ boot' = disk
       ELSE /\ UNCHANGED <<initialized, loaderSet, boot>>
            /\ LET op == IF ~loaderSet THEN OpRet(Panic(NoLoader), <<>>, FALSE)
                         ELSE IF method = "didOpen"
                         THEN AddFile(Started, disk, loader.pkgs, f, c, host)
                         ELSE IF method = "didChange"
                         THEN UpdateFile(Started, disk, loader.pkgs, f, c, host)
                         ELSE CloseFile(Started, disk, loader.pkgs, f)
               IN  IF op.L.panic
                   THEN /\ crashed' = TRUE
                        /\ pc' = [pc EXCEPT ![t] = "panicked"]
                        /\ UNCHANGED loader
                   ELSE /\ loader' = Collect([op.L EXCEPT !.pkgs = op.pkgs])
                        /\ pc' = [pc EXCEPT ![t] = "mutated"]
                        /\ UNCHANGED crashed

\* the loop over l.pkgs in LSP.OpenFile and LSP.UpdateFile: Errors and the
\* notifications; the other handlers have no such loop
Analyse(t) ==
    /\ ~crashed
    /\ pc[t] = "mutated"
    /\ UNCHANGED <<initialized, loaderSet, disk, req, nreq, ndisk, boot, record, doc,
                   result, mu>>
    /\ IF req.method \in {"didOpen", "didChange"}
       THEN LET p == Pass(Started, disk, loader.pkgs, 1, {})
            IN  IF p.L.panic
                THEN /\ crashed' = TRUE
                     /\ pc' = [pc EXCEPT ![t] = "panicked"]
                     /\ UNCHANGED <<loader, notes, published>>
                ELSE /\ loader' = Collect(p.L)
                     /\ notes' = p.notes
                     /\ published' = Publish(published, p.notes)
                     /\ pc' = [pc EXCEPT ![t] = "analysed"]
                     /\ UNCHANGED crashed
       ELSE /\ pc' = [pc EXCEPT ![t] = "analysed"]
            /\ UNCHANGED <<loader, notes, published, crashed>>

\* line 47: the deferred l.mu.Unlock(), on return and when a panic unwinds
Unlock(t) ==
    /\ pc[t] \in {"analysed", "panicked"}
    /\ mu' = 0
    /\ pc' = [pc EXCEPT ![t] = "idle"]
    /\ UNCHANGED <<server, record, doc, result>>

LockNext ==
    \E t \in 1..MaxCalls :
        \/ Call(t)
        \/ Lock(t)
        \/ \E method \in {"initialize", "didOpen", "didChange", "didClose"} :
             \E f \in FileSet : \E c \in Buffers(f) : \E host \in HostAnswers \cup {"ok"} :
                Mutate(t, method, f, c, host)
        \/ Analyse(t)
        \/ Unlock(t)

LockSpec == Init /\ [][LockNext]_vars

(***************************************************************************)
(* The formatter and the validation as functions of one record: the record *)
(* is drawn at the start, and one of the three is applied to it.           *)
(***************************************************************************)
\* the fields a record holds at most
MaxFields == 4

\* the largest pb number a tag holds
MaxPb == 3

Untagged(names) ==
    [names |-> names, tag |-> FALSE, wellFormed |-> TRUE, pb |-> "none", pbNum |-> 0,
     json |-> ""]

Tagged(wellFormed, pb, pbNum) ==
    [names |-> 1, tag |-> TRUE, wellFormed |-> wellFormed, pb |-> pb, pbNum |-> pbNum,
     json |-> ""]

\* a field: without a tag (one name, or two as in "a, b int"), with a tag
\* that holds other keys only (readable or not), with pb:"", with a pb that
\* is no number, with a pb number
Fields ==
    {Untagged(1), Untagged(2), Tagged(TRUE, "none", 0), Tagged(FALSE, "none", 0),
     Tagged(TRUE, "empty", 0), Tagged(TRUE, "nan", 0)}
    \cup {Tagged(TRUE, "num", n) : n \in 1..MaxPb}

Records == UNION {[1..n -> Fields] : n \in 0..MaxFields}

\* the lines a documentation comment holds at most
MaxLines == 3

Docs == UNION {[1..n -> DocLines] : n \in 0..MaxLines}

FormatInit ==
    /\ initialized = FALSE
    /\ loaderSet = FALSE
    /\ loader = NoLoader
    /\ disk = [gunk |-> {}, go |-> NoGo]
    /\ crashed = FALSE
    /\ req = NoRequest
    /\ notes = {}
    /\ published = <<>>
    /\ nreq = 0
    /\ ndisk = 0
    /\ boot = disk
    /\ doc \in Docs
    /\ record \in IF doc = <<>> THEN Records
                  ELSE UNION {[1..n -> Fields] : n \in 0..1}
    /\ result = NoResult
    /\ mu = 0
    /\ pc = [t \in 1..MaxCalls |-> "idle"]

Result(op, cfg, r, d, diags) ==
    [op |-> op, cfg |-> cfg, err |-> r.err, at |-> r.at, msg |-> r.msg,
     panic |-> r.panic, fields |-> r.fields, doc |-> d, diags |-> diags]

\* ast.Inspect reaches the comment before the record: an error of
\* formatComment ends formatFile before formatStruct runs
formatFile(d, fs) ==
    LET c == formatComment(d)
    IN  IF c.err
        THEN Result("formatComment", DefaultConfig,
                    FormatRet(TRUE, 0, "comment", FALSE, fs), d, <<>>)
        ELSE Result("formatStruct", DefaultConfig, formatStruct(fs), c.doc, <<>>)

Formatter_formatFile(cfg, d, fs) ==
    LET c == formatComment(d)
    IN  IF c.err
        THEN Result("formatComment", cfg,
                    FormatRet(TRUE, 0, "comment", FALSE, fs), d, <<>>)
        ELSE Result("Formatter.formatStruct", cfg, Formatter_formatStruct(cfg, fs),
                    c.doc, <<>>)

\* formatFile of lsp/format.go reaches the comment and the record
FormatFile ==
    /\ result.op = "none"
    /\ result' = formatFile(doc, record)
    /\ UNCHANGED <<server, record, doc, mu, pc>>

\* Formatter.formatFile reaches the comment and the record, under the
\* configuration cfg
FormatterFormatFile(cfg) ==
    /\ result.op = "none"
    /\ result' = Formatter_formatFile(cfg, doc, record)
    /\ UNCHANGED <<server, record, doc, mu, pc>>

\* Errors validates the package that declares the record
Validate ==
    /\ result.op = "none"
    /\ result' = Result("validatePackage", DefaultConfig,
                        FormatRet(FALSE, 0, "", FALSE, record), doc,
                        ValidateRecord(record))
    /\ UNCHANGED <<server, record, doc, mu, pc>>

(***************************************************************************)
(* The positions of the errors the type checker reports. The file          *)
(* /ws/a/1.gunk that declares the record reads                             *)
(*      1      package p                                                   *)
(*      2      //line /ws/a/1.gunk:5        (or no comment)                *)
(*      3                                                                  *)
(*      4      type T struct {              (no documentation comment)     *)
(*      4+i        a int `json:"a"`         (field i; "a, b int" when the  *)
(*                                           field has two names)          *)
(*      5+n    }                                                           *)
(*      6+n    const C = int()                                             *)
(* A token.Pos is the offset of a character from 1 on, every line taking   *)
(* 20 offsets; 0 is token.NoPos.                                           *)
(***************************************************************************)
\* the fields of the records the checker's errors are followed on
MaxChecked == 2

\* the line directive the scanner recorded for line 3 on: none, one that
\* names the file itself without a column, one with a column, one that
\* names another file
Directives ==
    {[file |-> "", line |-> 0, col |-> 0],
     [file |-> "/ws/a/1.gunk", line |-> 5, col |-> 0],
     [file |-> "/ws/a/1.gunk", line |-> 5, col |-> 3],
     [file |-> "/ws/a/x.gunk", line |-> 5, col |-> 0]}

\* fset.Position(pos): the zero Position for NoPos; file, line and column
\* adjusted by the line directive in force, the column unknown (0) when the
\* directive gives none
Position(d, pos) ==
    LET line   == ((pos - 1) \div 20) + 1
        column == ((pos - 1) % 20) + 1
    IN  IF pos = 0 THEN [Filename |-> "", Line |-> 0, Column |-> 0]
        ELSE IF d.line = 0 \/ line < 3
        THEN [Filename |-> "/ws/a/1.gunk", Line |-> line, Column |-> column]
        ELSE [Filename |-> d.file, Line |-> d.line + (line - 3),
              Column |-> IF d.col = 0 THEN 0
                         ELSE IF line = 3 THEN d.col + (column - 1)
                         ELSE column]

\* the nodes ast.Inspect visits in the file parsed from the record fs, each
\* with its Pos() and End()
Nodes(fs) ==
    LET At(l, c) == (l - 1) * 20 + c
        n        == Len(fs)
        Node(kind, l, c, l2, c2) == [kind |-> kind, Pos |-> At(l, c), End |-> At(l2, c2)]
        FieldNodes(i) ==
            IF fs[i].names = 2
            THEN {Node("Field", 4 + i, 2, 4 + i, 10), Node("Ident", 4 + i, 2, 4 + i, 3),
                  Node("Ident", 4 + i, 5, 4 + i, 6), Node("Ident", 4 + i, 7, 4 + i, 10)}
            ELSE {Node("Field", 4 + i, 2, 4 + i, IF fs[i].tag THEN 16 ELSE 7),
                  Node("Ident", 4 + i, 2, 4 + i, 3), Node("Ident", 4 + i, 4, 4 + i, 7)}
                 \cup (IF fs[i].tag THEN {Node("BasicLit", 4 + i, 8, 4 + i, 16)} ELSE {})
    IN  {Node("File", 1, 1, n + 6, 16), Node("Ident", 1, 9, 1, 10),
         Node("GenDecl", 4, 1, n + 5, 2), Node("TypeSpec", 4, 6, n + 5, 2),
         Node("Ident", 4, 6, 4, 7), Node("StructType", 4, 8, n + 5, 2),
         Node("FieldList", 4, 15, n + 5, 2),
         Node("GenDecl", n + 6, 1, n + 6, 16), Node("ValueSpec", n + 6, 7, n + 6, 16),
         Node("Ident", n + 6, 7, n + 6, 8), Node("CallExpr", n + 6, 11, n + 6, 16),
         Node("Ident", n + 6, 11, n + 6, 14)}
        \cup UNION {FieldNodes(i) : i \in 1..Len(fs)}

\* getNode that keeps the candidate that ends last
getNodeLongest(pos, nodes) ==
    LET candidates == {x \in nodes : x.Pos = pos}
    IN  IF candidates = {} THEN [kind |-> "nil", Pos |-> 0, End |-> 0]
        ELSE CHOOSE x \in candidates : \A y \in candidates : y.End <= x.End

\* getNode: of the nodes that start at pos the one that ends first, nil when
\* no node starts there
getNode(pos, nodes) ==
    LET candidates == {x \in nodes : x.Pos = pos}
    IN  IF candidates = {} THEN [kind |-> "nil", Pos |-> 0, End |-> 0]
        ELSE CHOOSE x \in candidates : \A y \in candidates : x.End <= y.End

\* GunkPackage.error: the Error for from..to, lines and columns less one
GunkPackage_error(file, from, to, d, msg, typ) ==
    LET start == Position(d, from)
        end   == Position(d, to)
    IN  [File |-> file, FromLine |-> start.Line - 1, FromCol |-> start.Column - 1,
         ToLine |-> end.Line - 1, ToCol |-> end.Column - 1, Msg |-> msg, Kind |-> typ]

\* GunkPackage.addError with an error that is no types.Error: the Error at
\* tokenPos to column 999 of its line, at 0:0 of no file for NoPos
addError(kind, tokenPos, d, msg) ==
    LET pos  == Position(d, tokenPos)
        file == IF tokenPos > 0 THEN pos.Filename ELSE ""
        line == IF tokenPos > 0 THEN pos.Line - 1 ELSE 0
        col  == IF tokenPos > 0 THEN pos.Column - 1 ELSE 0
    IN  [File |-> file, FromLine |-> line, FromCol |-> col, ToLine |-> line,
         ToCol |-> 999, Msg |-> msg, Kind |-> kind]

\* the Error callback ParsePackage hands the type checker, for an error at
\* errPos in the package whose one file declares the record fs
tconfig_Error(d, fs, errPos, msg) ==
    LET pos  == Position(d, errPos)
        node == getNode(errPos, Nodes(fs))
    IN  IF pos.Filename # "/ws/a/1.gunk" THEN addError(TypeError, errPos, d, msg)
        ELSE IF node.kind = "nil" THEN addError(TypeError, errPos, d, msg)
        ELSE GunkPackage_error(pos.Filename, node.Pos, node.End, d, msg, TypeError)

\* the conversion uint32(x) of an int: x modulo 2^32, held as its upper and
\* lower 16 bits
uint32(x) == [hi |-> (x \div 65536) % 65536, lo |-> x % 65536]

\* Errors on the package that declares the record: the type checker reports
\* one error at errPos (NoPos, the start of a node or its last character, as
\* the closing parenthesis of a call), the callback records it, and Errors
\* makes its diagnostic
CheckerError ==
    /\ result.op = "none"
    /\ doc = <<>>
    /\ Len(record) <= MaxChecked
    /\ \E d \in Directives :
          \E errPos \in {0} \cup UNION {{x.Pos, x.End - 1} : x \in Nodes(record)} :
              LET pErr == tconfig_Error(d, record, errPos, "msg")
              IN  result' =
                    [op |-> "tconfig.Error", cfg |-> DefaultConfig, err |-> FALSE,
                     at |-> errPos, msg |-> "", panic |-> FALSE, fields |-> record,
                     doc |-> doc, lineInfo |-> d, Errors |-> <<pErr>>,
                     diags |-> <<[Range |-> [Start |-> [Line |-> uint32(pErr.FromLine),
                                                        Character |-> uint32(pErr.FromCol)],
                                             End |-> [Line |-> uint32(pErr.ToLine),
                                                      Character |-> uint32(pErr.ToCol)]],
                                  Code |-> Code(pErr.Kind), Severity |-> 1,
                                  Message |-> pErr.Msg]>>]
    /\ UNCHANGED <<server, record, doc, mu, pc>>

FormatNext ==
    \/ FormatFile
    \/ \E cfg \in Configs : FormatterFormatFile(cfg)
    \/ Validate
    \/ CheckerError

FormatSpec == FormatInit /\ [][FormatNext]_vars

(***************************************************************************)
(* Properties                                                              *)
(***************************************************************************)
Running == loaderSet /\ ~crashed

\* the request handled last ran the diagnostics pass to its end
PassDone == Running /\ req.method \in {"didOpen", "didChange"}

\* the tracked node that covers file f (0 when none)
CoveringId(L, f) ==
    IF Tracked(L, f) THEN L.pkgs[Covering(L, L.pkgs, DirOf[FileDir(f)])] ELSE 0

\* the import paths the current sources of a node's files hold
SourceImports(L, D, n) ==
    UNION {Range(SourceOf(L, D, f).imports) :
             f \in {g \in Range(n.GunkFiles) : HasSource(L, D, g)}}

\* the packages the pass of the last request re-analysed
Reanalysed == {id \in Range(loader.pkgs) : loader.heap[id].State = Dirty}

\* C4 (as claimed): once the pass has run Errors on a Dirty package, the
\* package is in state Open
C4_OpenAfterErrors ==
    PassDone => \A id \in {x.pkg : x \in notes} : loader.heap[id].State = Open

\* C5 (as claimed): a pass over a package that is part of an import cycle
\* records an error on that package
C5_CycleReported ==
    PassDone => \A id \in Reanalysed :
                   (\E id2 \in Range(loader.pkgs) :
                        /\ id2 # id
                        /\ loader.heap[id2].PkgPath \in SourceImports(loader, disk, loader.heap[id])
                        /\ loader.heap[id].PkgPath \in SourceImports(loader, disk, loader.heap[id2]))
                   => Len(loader.heap[id].Errors) > 0

\* C7 (as claimed): AddFile for a file no tracked package covers, when the host
\* resolver yields one package, returns without error and the tracked set
\* holds a Dirty node that lists the file
C7_NewPackageTracked ==
    (loaderSet /\ req.method = "didOpen" /\ ~req.tracked /\ req.host = "one")
        => /\ ~crashed
           /\ ~req.err
           /\ \E id \in Range(loader.pkgs) :
                 /\ loader.heap[id].State = Dirty
                 /\ req.file \in Range(loader.heap[id].GunkFiles)

PackageStates == {Untracked, Dirty, Building, Open}

\* loader L with node id put in state s
WithState(L, id, s) == [L EXCEPT !.heap[id].State = s]

C9_UpdateFileMarksDirty ==
    Running =>
        \A f \in FileSet : \A c \in Buffers(f) : \A s \in PackageStates :
            Tracked(loader, f) =>
                LET r == UpdateFile(WithState(Started, CoveringId(loader, f), s),
                                    disk, loader.pkgs, f, c, "one")
                IN  /\ ~r.L.panic
                    /\ ~r.err
                    /\ r.L.heap[CoveringId(loader, f)].State = Dirty
                    /\ r.pkgs = loader.pkgs
                    /\ DOMAIN r.L.heap = DOMAIN loader.heap

\* C9 witness: a DidChange on a file of a tracked package was handled, the
\* package is Dirty and still the one tracked node of its directory
C9_Witness ==
    /\ Running /\ req.method = "didChange" /\ req.tracked
    /\ loader.heap[CoveringId(loader, req.file)].State = Dirty
    /\ Cardinality({i \in 1..Len(loader.pkgs) :
                      loader.heap[loader.pkgs[i]].Dir = DirOf[FileDir(req.file)]}) = 1

\* C6: after a DidOpen or DidChange, every file listed by a re-analysed
\* package got exactly one notification, which carries that file's errors
\* (the empty list when it has none)
C6_OneNotificationPerFile ==
    PassDone =>
        \A id \in Reanalysed : \A f \in Range(loader.heap[id].GunkFiles) :
            /\ Cardinality({x \in notes : x.file = f}) = 1
            /\ \A x \in notes : x.file = f =>
                   LET es == SelectSeq(loader.heap[id].Errors, LAMBDA e : e.File = f)
                   IN  x.diags = [i \in 1..Len(es) |-> Diagnostic(es[i])]

\* C6 witness: one request published an empty list for one listed file and
\* errors for another
C6_Witness ==
    /\ PassDone
    /\ \E id \in Reanalysed : \E f \in Range(loader.heap[id].GunkFiles) :
          \E x \in notes : x.file = f /\ x.diags = <<>>
    /\ \E id \in Reanalysed : \E f \in Range(loader.heap[id].GunkFiles) :
          \E x \in notes : x.file = f /\ x.diags # <<>>

EditDone == Running /\ req.method \in {"didOpen", "didChange", "didClose"} /\ req.tracked

\* C2 (as claimed): after an edit to a file of package A, every other tracked
\* package whose files import A is Dirty
C2_ImportersDirty ==
    EditDone =>
        \A id \in Range(loader.pkgs) :
            ( /\ loader.heap[id].PkgPath # PathOf[FileDir(req.file)]
              /\ PathOf[FileDir(req.file)] \in SourceImports(loader, disk, loader.heap[id]) )
            => loader.heap[id].State = Dirty

\* the paths Load is called with: import paths (Import, gotoImport) and
\* directories (filePkg)
LoadPaths == ImportPaths \cup Dirs \cup {NoGunkPath, MissingPath}

LastLoad(L) == L.loads[Len(L.loads)]

\* C10 (as claimed): of two Load calls for one path with nothing between, the
\* second returns what the first returned, from the cache, and changes neither
\* the cache nor the overlay
C10_SecondLoadSame ==
    Running =>
        \A path \in LoadPaths :
            LET r1 == Load(Started, disk, path)
                r2 == Load(r1.L, disk, path)
            IN  /\ r2.pkgs = r1.pkgs
                /\ r2.err = r1.err
                /\ LastLoad(r2.L).hit
                /\ r2.L.cache = r1.L.cache
                /\ r2.L.fakeFiles = r1.L.fakeFiles

\* C10 (amended): when the first call leaves a node without load errors
\* cached under the path, the second call returns that node, the one the first
\* call returned, from the cache, and changes neither the cache, the nodes
\* nor the overlay
C10_CachedLoadSame ==
    Running =>
        \A path \in LoadPaths :
            LET r1 == Load(Started, disk, path)
                r2 == Load(r1.L, disk, path)
            IN  ( /\ HasKey(r1.L.cache, path)
                  /\ Len(r1.L.heap[r1.L.cache[path]].PkgErrors) = 0 )
                => /\ r2.pkgs = <<r1.L.cache[path]>>
                   /\ r2.pkgs = r1.pkgs
                   /\ ~r2.err /\ ~r1.err
                   /\ LastLoad(r2.L).hit
                   /\ r2.L.cache = r1.L.cache
                   /\ r2.L.heap = r1.L.heap
                   /\ r2.L.fakeFiles = r1.L.fakeFiles

\* C10 witness: within one request Load ran twice for one path, the first call
\* resolved the package and the second returned the same node from the cache
C10_Witness ==
    /\ Running
    /\ \E i, j \in 1..Len(loader.loads) :
          /\ i < j
          /\ loader.loads[i].path = loader.loads[j].path
          /\ ~loader.loads[i].hit /\ loader.loads[j].hit
          /\ Len(loader.loads[i].ret) = 1
          /\ loader.loads[j].ret = loader.loads[i].ret

FileOrder == AllFiles.a \o AllFiles.b \o AllFiles.c

\* a loader created on disk D that is given the overrides mem, file by file
RECURSIVE Replay(_, _, _, _, _)
Replay(L, D, mem, i, pub) ==
    IF i > Len(FileOrder) THEN pub
    ELSE IF ~HasKey(mem, FileOrder[i]) THEN Replay(L, D, mem, i + 1, pub)
    ELSE LET h == OpenFile(L, D, FileOrder[i], mem[FileOrder[i]], "err")
         IN  IF h.L.panic THEN pub
             ELSE Replay(h.L, D, mem, i + 1, Publish(pub, h.notes))

\* C1 (as claimed): with the disk left alone, the diagnostics published last
\* for every open file are those a fresh loader publishes for it when given
\* the present overrides
C1_IncrementalEqualsFresh ==
    (Running /\ ndisk = 0 /\ req.method \in {"didOpen", "didChange", "didClose"}) =>
        LET fresh == Replay(LoadWorkspace(disk), disk, loader.mem, 1, <<>>)
        IN  \A f \in DOMAIN loader.mem :
                (HasKey(published, f) /\ HasKey(fresh, f)) => published[f] = fresh[f]

\* what Load returns, by value
LoadResult(L, D, path) ==
    LET r == Load(L, D, path)
    IN  [err |-> r.err, pkgs |-> [i \in 1..Len(r.pkgs) |-> r.L.heap[r.pkgs[i]]]]

\* C3 (as claimed): after CloseFile on a file of a tracked package that has no
\* IDL file left on disk, no tracked package covers the file, and Load of the
\* package path returns what it returns on a loader that never opened the
\* file (one created on the present disk, or the one created at start-up)
C3_ClosedAsNeverOpened ==
    (Running /\ req.method = "didClose" /\ req.tracked
       /\ Glob(disk, DirOf[FileDir(req.file)]) = <<>>)
    => /\ ~Tracked(loader, req.file)
       /\ \/ LoadResult(Started, disk, PathOf[FileDir(req.file)])
               = LoadResult(LoadWorkspace(disk), disk, PathOf[FileDir(req.file)])
          \/ LoadResult(Started, disk, PathOf[FileDir(req.file)])
               = LoadResult(LoadWorkspace(boot), disk, PathOf[FileDir(req.file)])

\* C11: AddFile and UpdateFile, when they return (with or without an error),
\* leave the override table as it was with the path mapped to the new
\* content; CloseFile leaves it as it was without the path; and once a
\* handler has returned, diagnostics pass included, the table holds the
\* content of the request for an opened or changed file and nothing for a
\* closed one
C11_OverridesFollowCalls ==
    Running =>
        /\ \A f \in FileSet : \A c \in Buffers(f) : \A host \in HostAnswers :
              /\ \A r \in {AddFile(Started, disk, loader.pkgs, f, c, host),
                           UpdateFile(Started, disk, loader.pkgs, f, c, host)} :
                    ~r.L.panic => r.L.mem = Put(loader.mem, f, c)
              /\ CloseFile(Started, disk, loader.pkgs, f).L.mem = Delete(loader.mem, f)
        /\ req.method \in {"didOpen", "didChange"} =>
              HasKey(loader.mem, req.file) /\ loader.mem[req.file] = req.content
        /\ req.method = "didClose" => ~HasKey(loader.mem, req.file)

\* C11 witness: an AddFile that returned an error has left its override, and
\* another open file still has the override it was given
C11_Witness ==
    /\ Running /\ req.method = "didOpen" /\ req.err
    /\ HasKey(loader.mem, req.file) /\ loader.mem[req.file] = req.content
    /\ \E g \in DOMAIN loader.mem : g # req.file

\* C12: CloseFile on a file no tracked package covers returns an error and
\* leaves the tracked set, the cache and every node as they were
C12_CloseUntrackedFails ==
    Running =>
        \A f \in FileSet :
            ~Tracked(loader, f) =>
                LET r == CloseFile(Started, disk, loader.pkgs, f)
                IN  /\ r.err /\ ~r.L.panic
                    /\ r.pkgs = loader.pkgs
                    /\ r.L.cache = loader.cache
                    /\ r.L.heap = loader.heap

\* C12 witness: a DidClose on a file no tracked package covers was handled
\* and CloseFile returned its error
C12_Witness ==
    /\ Running /\ req.method = "didClose" /\ ~req.tracked /\ req.err
    /\ ~Tracked(loader, req.file)

\* the paths Import is called with: the import paths of IDL packages, of a
\* package without IDL files, of a missing package, and of a host package
ImportArgs == ImportPaths \cup {NoGunkPath, MissingPath, HostPath}

\* C13 (as claimed): Import leaves Load alone exactly for the paths that hold
\* a '.', and goes through Load for every other path
C13_DotGoesToHost ==
    Running =>
        \A path \in ImportArgs :
            LET r == Import(Started, disk, path)
            IN  (r.L.loads = <<>>) <=> HasDot(path)

\* C13 (amended): Import leaves Load alone, and returns the host package's
\* surface, exactly for the paths that hold no '.'; for every other path its
\* first step is Load of that path
C13_NoDotGoesToHost ==
    Running =>
        \A path \in ImportArgs :
            LET r == Import(Started, disk, path)
            IN  /\ (r.L.loads = <<>>) <=> ~HasDot(path)
                /\ ~HasDot(path) => ~r.err /\ ~r.L.panic /\ r.types = [ok |-> TRUE, node |-> 0]
                /\ HasDot(path) => r.L.loads[1].path = path

\* C13 witness: a pass checked a file that imports the host package "time"
\* and a package that imports an IDL package; the host import resolved (the
\* file has no diagnostic) and the IDL import went through Load
C13_Witness ==
    /\ PassDone /\ req.tracked /\ req.content = KTime
    /\ \E x \in notes : x.file = req.file /\ x.diags = <<>>
    /\ \E i \in 1..Len(loader.loads) : loader.loads[i].path \in ImportPaths
    /\ Import(Started, disk, HostPath).L.loads = <<>>

\* C14 (as claimed): Import returns an error, and does not panic, whenever the
\* load it delegates to returns no package or more than one
C14_ImportNeverPanics ==
    Running =>
        \A path \in ImportArgs :
            LET r == Import(Started, disk, path)
                l == Load(Started, disk, path)
            IN  /\ ~r.L.panic
                /\ (HasDot(path) /\ ~l.err /\ Len(l.pkgs) # 1) => r.err

\* C15 (as claimed): Import returns an error when the package it has loaded
\* and parsed carries an error, and never returns no surface with no error
C15_ImportErrorOrSurface ==
    Running =>
        \A path \in ImportPaths :
            LET r == Import(Started, disk, path)
            IN  ~r.L.panic =>
                  /\ r.types.ok \/ r.err
                  /\ (~r.err /\ r.types.node # 0) =>
                        Len(r.L.heap[r.types.node].Errors) = 0

\* C16 (as claimed): the package Import has parsed and checked lists every
\* file of the package that has an override, files that are not on disk
\* included
C16_ImportSeesOverrides ==
    Running =>
        \A p \in Pkgs :
            LET r == Import(Started, disk, PathOf[p])
            IN  (~r.L.panic /\ ~r.err /\ r.types.ok /\ r.types.node # 0) =>
                    {f \in Range(AllFiles[p]) : HasKey(loader.mem, f)} \subseteq Range(r.L.heap[r.types.node].GunkFiles)

(***************************************************************************)
(* LSP.Format, the handler of the Formatting request.                      *)
(***************************************************************************)
\* a file that has no error
fileErrNever(errs, file, anyKind) == FALSE

\* the loop that looks for an error of the file: of any kind in the handler
\* of lsp/format.go, of a kind other than Validate in the configured Format
\* and in Goto
fileErr(errs, file, anyKind) ==
    \E k \in 1..Len(errs) :
        errs[k].File = file /\ (anyKind \/ errs[k].Kind # ValidateError)

\* what a handler tells the client: "error", "edits" or "locations", or
\* "empty" (neither); "none" when it panicked before it replied
Reply(L, reply, msg, files, errs, tree) ==
    [L |-> L, reply |-> reply, msg |-> msg, files |-> files, errs |-> errs,
     tree |-> tree]

\* configured: the handler next to the configured Formatter (it parses when
\* the package holds no tree, and passes over Validate errors); otherwise the
\* handler of lsp/format.go (it parses when the package lists no file, and
\* stops at any error of the file).  files and errs are the file list and
\* the errors of the resolved package when the handler looks at them, tree
\* the file whose tree went to the formatter.  The formatter works on the
\* tree the package holds (pkg.GunkSyntax[i]) and writes the tags into it
Format(L, D, file, configured) ==
    With([r \in {Load(L, D, DirOf[FileDir(file)])} |->
        IF r.L.panic THEN Reply(r.L, "none", "", <<>>, <<>>, "")
        ELSE IF r.err THEN Reply(r.L, "error", "could not load package", <<>>, <<>>, "")
        ELSE IF Len(r.pkgs) # 1 THEN Reply(r.L, "error", "expected 1 package", <<>>, <<>>, "")
        ELSE With([L1 \in {IF (configured /\ Len(r.L.heap[r.pkgs[1]].GunkSyntax) = 0)
                              \/ (~configured /\ Len(r.L.heap[r.pkgs[1]].GunkFiles) = 0)
                           THEN ParsePackage(r.L, D, r.pkgs[1], FALSE)
                           ELSE r.L} |->
            LET pkg == L1.heap[r.pkgs[1]]
                i   == IndexOf(pkg.GunkFiles, file)
            IN  IF L1.panic THEN Reply(L1, "none", "", <<>>, <<>>, "")
                ELSE IF fileErr(pkg.Errors, file, ~configured)
                THEN Reply(L1, "error", "file has errors", pkg.GunkFiles, pkg.Errors, "")
                ELSE IF i = 0
                THEN Reply(L1, "error", "could not find file", pkg.GunkFiles, pkg.Errors, "")
                ELSE IF i > Len(pkg.GunkSyntax)
                THEN Reply(Panic(L1), "none", "", pkg.GunkFiles, pkg.Errors, "")
                ELSE LET f == pkg.GunkSyntax[i]
                         t == IF configured
                              THEN Formatter_formatFile(DefaultConfig, <<>>, f.c.fields)
                              ELSE formatFile(<<>>, f.c.fields)
                         L2 == [L1 EXCEPT !.heap[r.pkgs[1]].GunkSyntax[i].c.fields = t.fields]
                     IN  IF t.panic
                         THEN Reply(Panic(L1), "none", "", pkg.GunkFiles, pkg.Errors, f.file)
                         ELSE IF t.err
                         THEN Reply(L2, "error", "could not format file", pkg.GunkFiles,
                                    pkg.Errors, f.file)
                         ELSE Reply(L2, "edits", "", pkg.GunkFiles, pkg.Errors, f.file)])])

(***************************************************************************)
(* LSP.Goto, the handler of the Definition request.                        *)
(***************************************************************************)
invalidType == "can only go to definition on struct or enum types"

\* typedef.go, lines 110-131
gotoImport(L, D, path) ==
    With([r \in {Load(L, D, path)} |->
        IF r.L.panic THEN Reply(r.L, "none", "", <<>>, <<>>, "")
        ELSE IF r.err \/ Len(r.pkgs) > 1
        THEN Reply(r.L, "error", "unexpected error loading", <<>>, <<>>, "")
        ELSE IF Len(r.pkgs) = 0
        THEN Reply(r.L, "error", "no gunk files in package", <<>>, <<>>, "")
        ELSE Reply(r.L, "locations", "", r.L.heap[r.pkgs[1]].GunkFiles, <<>>, "")])

\* lines 134-171: pkg.TypesInfo is nil unless the last analysis of the
\* package reached the type check; a declared type is located in the file
\* that declares it
gotoType(L, pkg, f, cursor) ==
    IF ~pkg.Types.set THEN Reply(Panic(L), "none", "", <<>>, pkg.Errors, f.file)
    ELSE IF cursor = "nontype" THEN Reply(L, "empty", "", <<>>, pkg.Errors, f.file)
    ELSE IF cursor = "basic" THEN Reply(L, "error", invalidType, <<>>, pkg.Errors, f.file)
    ELSE Reply(L, "locations", "", <<f.file>>, pkg.Errors, f.file)

\* lines 20-107.  cursor is what ast.Inspect finds under the position: an
\* import path of the file (its literal), "basic", "named" or "nontype" (an
\* identifier or selector that denotes a basic type, a declared type, no
\* type), "wrapper" (inside an array, map, function or channel type and on no
\* identifier), or anything else (nothing the switch stops at)
Goto(L, D, file, cursor) ==
    With([r \in {Load(L, D, DirOf[FileDir(file)])} |->
        IF r.L.panic THEN Reply(r.L, "none", "", <<>>, <<>>, "")
        ELSE IF r.err THEN Reply(r.L, "error", "could not load package", <<>>, <<>>, "")
        ELSE IF Len(r.pkgs) # 1 THEN Reply(r.L, "error", "expected 1 package", <<>>, <<>>, "")
        ELSE LET pkg == r.L.heap[r.pkgs[1]]
                 i   == IndexOf(pkg.GunkFiles, file)
             IN  IF fileErr(pkg.Errors, file, FALSE)
                 THEN Reply(r.L, "error", "file has errors", <<>>, pkg.Errors, "")
                 ELSE IF i = 0
                 THEN Reply(r.L, "error", "could not find file", <<>>, pkg.Errors, "")
                 ELSE IF i > Len(pkg.GunkSyntax)
                 THEN Reply(Panic(r.L), "none", "", <<>>, pkg.Errors, "")
                 ELSE LET f == pkg.GunkSyntax[i]
                      IN  IF cursor \in Range(f.c.imports)
                          THEN [gotoImport(r.L, D, cursor) EXCEPT !.errs = pkg.Errors,
                                                                  !.tree = f.file]
                          ELSE IF cursor \in {"basic", "named", "nontype"}
                          THEN gotoType(r.L, pkg, f, cursor)
                          ELSE IF cursor = "wrapper"
                          THEN Reply(r.L, "error", invalidType, <<>>, pkg.Errors, f.file)
                          ELSE Reply(r.L, "empty", "", <<>>, pkg.Errors, f.file)])

\* the record went through one of the two formatters
Formatted == result.op \in {"formatStruct", "Formatter.formatStruct"}

\* the fields of the record without a pb key, in declaration order
Lacking(fs) == SelectSeq([i \in 1..Len(fs) |-> i],
                         LAMBDA i : ~fs[i].tag \/ fs[i].pb = "none")

\* the pb numbers the fields of the record hold
UsedNumbers(fs) == {fs[i].pbNum : i \in {j \in 1..Len(fs) : fs[j].tag /\ fs[j].pb = "num"}}

\* the k smallest integers from n on that are not in used, ascending
RECURSIVE SmallestUnused(_, _, _)
SmallestUnused(used, k, n) ==
    IF k = 0 THEN <<>>
    ELSE IF n \in used THEN SmallestUnused(used, k, n + 1)
    ELSE <<n>> \o SmallestUnused(used, k - 1, n + 1)

\* the fields at the indices ix hold the numbers ns, index by index
Numbered(fs, ix, ns) ==
    \A k \in 1..Len(ix) : fs[ix[k]].tag /\ fs[ix[k]].pb = "num" /\ fs[ix[k]].pbNum = ns[k]

\* C17 (as claimed): two fields of a record tagged with the same pb number
\* give a diagnostic with the code "validate error" whose range covers the
\* tags of both fields
C17_DuplicatePbValidateError ==
    result.op = "validatePackage" =>
        \A i, j \in 1..Len(record) :
            (/\ i < j
             /\ \A k \in {i, j} : record[k].tag /\ record[k].wellFormed /\ record[k].pb = "num"
             /\ record[i].pbNum = record[j].pbNum)
            => \E k \in 1..Len(result.diags) :
                  /\ result.diags[k].Code = "validate error"
                  /\ result.diags[k].Span \in {TagSpan(i), TagSpan(j)}
                  /\ \E l \in 1..Len(result.diags) :
                        /\ result.diags[l].Code = "validate error"
                        /\ result.diags[l].Span \in {TagSpan(i), TagSpan(j)} \ {result.diags[k].Span}

C19_NumbersKept ==
    Formatted =>
        \A i \in 1..Len(record) :
            (record[i].tag /\ record[i].pb = "num") =>
                /\ result.fields[i].pb = "num"
                /\ result.fields[i].pbNum = record[i].pbNum

\* C20 (as claimed): formatting a record with a tag whose pb is empty or no
\* number ends with an error that names such a field, and leaves the fields
\* as they were, under every configuration
C20_BadPbIsError ==
    Formatted =>
        LET bad == {i \in 1..Len(record) : record[i].tag /\ record[i].pb \in {"empty", "nan"}}
        IN  bad # {} => result.err /\ result.at \in bad /\ result.fields = record

C26_EditReturnsNil ==
    (loaderSet /\ req.method \in {"didOpen", "didChange", "didClose"}) => ~crashed

\* C30 (as claimed): every package the last pass parsed holds one syntax tree
\* per listed file, and the tree at index i is the tree of the file at index i
C30_TreesAligned ==
    PassDone =>
        \A id \in Reanalysed :
            /\ Len(loader.heap[id].GunkSyntax) = Len(loader.heap[id].GunkFiles)
            /\ \A i \in 1..Len(loader.heap[id].GunkSyntax) :
                  i <= Len(loader.heap[id].GunkFiles)
                      => loader.heap[id].GunkSyntax[i].file = loader.heap[id].GunkFiles[i]

\* C28 (as claimed): where tracked package C imports B and B imports A, after
\* an edit to a file of A and the diagnostics pass that follows it, C is Dirty
\* and the pass has analysed C
C28_TransitiveImporterReanalysed ==
    (PassDone /\ req.tracked /\ req.file \in FileSet) =>
        \A B \in Range(loader.pkgs) : \A C \in Range(loader.pkgs) :
            ( /\ PathOf[FileDir(req.file)] \in SourceImports(loader, disk, loader.heap[B])
              /\ loader.heap[B].PkgPath \in SourceImports(loader, disk, loader.heap[C])
              /\ loader.heap[C].PkgPath # PathOf[FileDir(req.file)]
              /\ loader.heap[C].PkgPath # loader.heap[B].PkgPath )
            => /\ loader.heap[C].State = Dirty
               /\ \E x \in notes : x.pkg = C

\* C21 (as claimed): formatting what the formatter wrote changes nothing:
\* the same formatter, applied to the comment and the fields it produced,
\* succeeds and produces that comment and those fields
C21_FormatIdempotent ==
    (Formatted /\ ~result.err /\ ~result.panic) =>
        LET again == IF result.op = "formatStruct"
                     THEN formatFile(result.doc, result.fields)
                     ELSE Formatter_formatFile(result.cfg, result.doc, result.fields)
        IN  /\ again.op = result.op
            /\ ~again.err /\ ~again.panic
            /\ again.doc = result.doc
            /\ again.fields = result.fields

\* C22 (as claimed): a Format request is answered with an error when the file
\* has a recorded error of a kind other than Validate or is not in the file
\* list of its resolved package, and with the formatted text when the only
\* errors of the file are Validate errors
C22_FormatRejectsOrFormats ==
    Running =>
        \A f \in FileSet : \A configured \in BOOLEAN :
            LET r    == Format(Started, disk, f, configured)
                all  == {k \in 1..Len(r.errs) : r.errs[k].File = f}
                hard == {k \in all : r.errs[k].Kind # ValidateError}
            IN  r.files # <<>> =>
                  /\ hard # {} => r.reply = "error"
                  /\ f \notin Range(r.files) => r.reply = "error"
                  /\ (f \in Range(r.files) /\ all # {} /\ hard = {}) => r.reply = "edits"

\* C22 (amended): both handlers answer with an error when the file has a
\* recorded error of a kind other than Validate or is not in the file list of
\* its resolved package; a file whose only errors are Validate errors goes to
\* the formatter in the configured handler (which answers with the text, or
\* with the formatter's error), and is answered with the error "file has
\* errors" by the handler of lsp/format.go
C22_FormatRejectsNonValidate ==
    Running =>
        \A f \in FileSet : \A configured \in BOOLEAN :
            LET r    == Format(Started, disk, f, configured)
                all  == {k \in 1..Len(r.errs) : r.errs[k].File = f}
                hard == {k \in all : r.errs[k].Kind # ValidateError}
            IN  r.files # <<>> =>
                  /\ hard # {} => r.reply = "error" /\ r.msg = "file has errors"
                  /\ f \notin Range(r.files) => r.reply = "error"
                  /\ (f \in Range(r.files) /\ all # {} /\ hard = {}) =>
                        IF configured
                        THEN r.reply = "edits" \/ r.msg = "could not format file"
                        ELSE r.reply = "error" /\ r.msg = "file has errors"

\* C22 witness: in one state a Format request for a file with a hard error
\* is answered with an error, and one for a file with Validate errors only is
\* answered with the text by the configured handler and with an error by the
\* other
C22_Witness ==
    /\ Running
    /\ \E f \in FileSet :
          LET r == Format(Started, disk, f, TRUE)
          IN  /\ r.reply = "error"
              /\ \E k \in 1..Len(r.errs) :
                    r.errs[k].File = f /\ r.errs[k].Kind # ValidateError
    /\ \E f \in FileSet :
          LET r == Format(Started, disk, f, TRUE)
              o == Format(Started, disk, f, FALSE)
          IN  /\ f \in Range(r.files) /\ r.errs # <<>> /\ o.errs = r.errs
              /\ \A k \in 1..Len(r.errs) : r.errs[k].Kind = ValidateError
              /\ \E k \in 1..Len(r.errs) : r.errs[k].File = f
              /\ r.reply = "edits" /\ o.reply = "error"

\* C23 (as claimed): for an open file that parses and has no recorded error,
\* a Definition request with the cursor on one of its import paths is
\* answered with the file list of the imported package when a tracked package
\* has that path, and with an error when no IDL package has it
C23_ImportLocations ==
    Running =>
        \A f \in DOMAIN loader.mem : \A p \in Range(loader.mem[f].imports) :
            ( /\ loader.mem[f].parse /\ Tracked(loader, f)
              /\ ~fileErr(loader.heap[CoveringId(loader, f)].Errors, f, TRUE) )
            => LET r  == Goto(Started, disk, f, p)
                   at == {id \in Range(loader.pkgs) : loader.heap[id].PkgPath = p}
               IN  IF at # {}
                   THEN /\ r.reply = "locations"
                        /\ \A id \in at : r.files = loader.heap[id].GunkFiles
                   ELSE p \notin ImportPaths => r.reply = "error"

\* C24 (as claimed): for an open file that parses and has no recorded error
\* of a kind other than Validate, a Definition request is answered with the
\* invalid-target error when the cursor is on a basic type identifier or
\* inside the syntax of a container type, and with neither error nor location
\* when it is on nothing navigable
C24_InvalidTargetOrEmpty ==
    Running =>
        \A f \in DOMAIN loader.mem :
            ( /\ loader.mem[f].parse /\ Tracked(loader, f)
              /\ ~fileErr(loader.heap[CoveringId(loader, f)].Errors, f, FALSE) )
            => /\ \A cursor \in {"basic", "wrapper"} :
                     LET r == Goto(Started, disk, f, cursor)
                     IN  r.reply = "error" /\ r.msg = invalidType /\ r.files = <<>>
               /\ LET r == Goto(Started, disk, f, "nothing")
                  IN  r.reply = "empty" /\ r.files = <<>>

\* C25: at most one call of Handle is between l.mu.Lock() and the deferred
\* l.mu.Unlock() (neither idle nor waiting), and that call holds the lock: while one call is between
\* its loader operation and its diagnostics pass, no other call has entered,
\* so the cache, the overrides and the overlay are touched by one request at
\* a time and a request's mutation is complete before the next one starts
C25_OneHandlerAtATime ==
    /\ \A t \in 1..MaxCalls : pc[t] \notin {"idle", "called"} => mu = t
    /\ \A t \in 1..MaxCalls : \A u \in 1..MaxCalls :
          (pc[t] \notin {"idle", "called"} /\ pc[u] \notin {"idle", "called"}) => t = u
    /\ mu = 0 => \A t \in 1..MaxCalls : pc[t] \in {"idle", "called"}

\* C25 witness: one call has made its loader operation and not yet its
\* diagnostics pass, while another call waits for the lock
C25_Witness ==
    /\ loaderSet /\ req.method = "didOpen"
    /\ \E t \in 1..MaxCalls : \E u \in 1..MaxCalls :
          pc[t] = "mutated" /\ mu = t /\ pc[u] = "called"

\* C31: a re-parse starts from cleared syntax trees, type table and error
\* list.  Errors after an edit, Import of a cached package that is Dirty or
\* has no type table, and CloseFile give the same loader as they give when
\* the three fields of the node are emptied beforehand; after Errors every
\* syntax tree of the node is the tree of the current content of a listed
\* file, and after CloseFile the three fields are empty
C31_ReparseFromScratch ==
    Running =>
        /\ \A f \in FileSet : \A c \in Buffers(f) :
              Tracked(loader, f) =>
                  LET id == CoveringId(loader, f)
                      r  == UpdateFile(Started, disk, loader.pkgs, f, c, "one")
                      e  == Errors(r.L, disk, id)
                      eb == Errors([r.L EXCEPT !.heap[id].GunkSyntax = <<>>,
                                               !.heap[id].Errors = <<>>,
                                               !.heap[id].Types = NoTypes], disk, id)
                      cl == CloseFile(Started, disk, loader.pkgs, f)
                  IN  /\ e.L = eb.L /\ e.diags = eb.diags
                      /\ ~e.L.panic =>
                            \A k \in 1..Len(e.L.heap[id].GunkSyntax) :
                                LET t == e.L.heap[id].GunkSyntax[k]
                                IN  /\ t.file \in Range(e.L.heap[id].GunkFiles)
                                    /\ t.c = SourceOf(e.L, disk, t.file)
                      /\ cl.L.heap[id].GunkSyntax = <<>>
                      /\ cl.L.heap[id].Errors = <<>>
                      /\ ~cl.L.heap[id].Types.set
        /\ \A path \in DOMAIN loader.cache :
              LET id == loader.cache[path]
                  n  == loader.heap[id]
                  i  == Import(Started, disk, path)
                  ib == Import([Started EXCEPT !.heap[id].GunkSyntax = <<>>,
                                               !.heap[id].Errors = <<>>,
                                               !.heap[id].Types = NoTypes], disk, path)
              IN  (HasDot(path) /\ (n.State = Dirty \/ ~n.Types.set)) =>
                      i.L = ib.L /\ i.types = ib.types /\ i.err = ib.err

\* C31 witness: a tracked package holds an error and a syntax tree of an
\* earlier parse, and Errors after an edit of one of its files leaves it
\* without errors and with a type table
C31_Witness ==
    /\ Running
    /\ \E f \in FileSet : \E c \in Buffers(f) :
          /\ Tracked(loader, f)
          /\ loader.heap[CoveringId(loader, f)].Errors # <<>>
          /\ loader.heap[CoveringId(loader, f)].GunkSyntax # <<>>
          /\ LET e == Errors(UpdateFile(Started, disk, loader.pkgs, f, c, "one").L,
                             disk, CoveringId(loader, f))
             IN  /\ e.some
                 /\ e.L.heap[CoveringId(loader, f)].Errors = <<>>
                 /\ e.L.heap[CoveringId(loader, f)].Types.set

\* C32 (as claimed): a Format or Definition request on an open file leaves
\* the tracked set, the cache and the state of every node as they were, and
\* every node that held syntax trees holds the same trees afterwards
C32_RequestsReadOnly ==
    Running =>
        \A f \in DOMAIN loader.mem :
            \A r \in {Format(Started, disk, f, TRUE).L, Format(Started, disk, f, FALSE).L}
                     \cup {Goto(Started, disk, f, cursor).L :
                             cursor \in {"basic", "named", "other"} \cup ImportPaths} :
                ~r.panic =>
                    /\ r.pkgs = loader.pkgs
                    /\ r.cache = loader.cache
                    /\ \A id \in DOMAIN loader.heap :
                          /\ r.heap[id].State = loader.heap[id].State
                          /\ loader.heap[id].GunkSyntax # <<>> =>
                                r.heap[id].GunkSyntax = loader.heap[id].GunkSyntax

\* C33 (as claimed): the placeholder overlay holds no entry for a directory
\* that holds a host-language file
C33_NoPlaceholderBesideGo ==
    Running => \A p \in loader.fakeFiles : boot.go[p] = {} /\ disk.go[p] = {}

\* C35 (as claimed): a package has one node.  A node of the cache and a
\* tracked node with the same import path are the same node, and a link of
\* an importer leads to the tracked node of the path it names and to the
\* node the cache holds for that path
C35_OneNodePerPath ==
    Running =>
        /\ \A id \in Range(loader.pkgs) : \A k \in DOMAIN loader.cache :
              loader.heap[loader.cache[k]].PkgPath = loader.heap[id].PkgPath
                  => loader.cache[k] = id
        /\ \A n \in Range(loader.pkgs) : \A path \in DOMAIN loader.heap[n].Imports :
              /\ \A id \in Range(loader.pkgs) :
                    loader.heap[id].PkgPath = path => loader.heap[n].Imports[path] = id
              /\ HasKey(loader.cache, path)
                    => loader.heap[n].Imports[path] = loader.cache[path]

\* C36 (as claimed): a file with an override that its tracked package lists
\* is still listed, by a package that is still tracked, after UpdateFile or
\* CloseFile on another file of the same package
C36_OverrideStaysListed ==
    Running =>
        \A f \in DOMAIN loader.mem : \A g \in FileSet \ {f} :
            ( /\ FileDir(g) = FileDir(f)
              /\ Tracked(loader, f)
              /\ f \in Range(loader.heap[CoveringId(loader, f)].GunkFiles) )
            => \A r \in {UpdateFile(Started, disk, loader.pkgs, g, c, "one") : c \in Buffers(g)}
                        \cup {CloseFile(Started, disk, loader.pkgs, g)} :
                  ~r.L.panic =>
                      /\ CoveringId(loader, f) \in Range(r.pkgs)
                      /\ f \in Range(r.L.heap[CoveringId(loader, f)].GunkFiles)

\* C37 (as claimed): a Format or Definition request on an open file is
\* answered, by a result or by an error, on every path: no path ends
\* without a call of reply
C37_OneReply ==
    Running =>
        \A f \in DOMAIN loader.mem :
            /\ \A configured \in BOOLEAN :
                  Format(Started, disk, f, configured).reply # "none"
            /\ \A cursor \in {"basic", "named", "nontype", "wrapper", "other"}
                             \cup ImportPaths :
                  Goto(Started, disk, f, cursor).reply # "none"

\* C38 (as claimed): whenever the initialized flag is set the loader exists
C38_InitializedHasLoader ==
    initialized => loaderSet


\* C34 (as claimed): for a type-checker error at position P in the file of
\* the package, the recorded range is the span of the smallest node of the
\* file that encloses P; when the file is not in the package or no node
\* encloses P, the error is recorded at the raw file and position
C34_SmallestEnclosingNode ==
    result.op = "tconfig.Error" =>
        LET d == result.lineInfo
            P == result.at
            E == {x \in Nodes(record) : x.Pos <= P /\ P < x.End}
        IN  IF Position(d, P).Filename = "/ws/a/1.gunk" /\ E # {}
            THEN \E m \in E :
                    /\ \A y \in E : m.End - m.Pos <= y.End - y.Pos
                    /\ result.Errors[1] =
                          GunkPackage_error("/ws/a/1.gunk", m.Pos, m.End, d, "msg", TypeError)
            ELSE result.Errors[1] = addError(TypeError, P, d, "msg")

\* C34 (amended): for a type-checker error at position P in the file of the
\* package, the recorded range is the span of the shortest of the nodes that
\* start exactly at P; when the file is not in the package or no node starts
\* at P, the error is recorded at the raw file and position, to column 999
C34_ShortestNodeStartingAt ==
    result.op = "tconfig.Error" =>
        LET d == result.lineInfo
            P == result.at
            S == {x \in Nodes(record) : x.Pos = P}
        IN  IF Position(d, P).Filename = "/ws/a/1.gunk" /\ S # {}
            THEN \E m \in S :
                    /\ \A y \in S : m.End <= y.End
                    /\ result.Errors[1] =
                          GunkPackage_error("/ws/a/1.gunk", m.Pos, m.End, d, "msg", TypeError)
            ELSE result.Errors[1] = addError(TypeError, P, d, "msg")

\* C34 witness: an error reported at the name of the first field, where the
\* field and its name both start, is recorded on the span of the name
C34_Witness ==
    /\ result.op = "tconfig.Error"
    /\ result.lineInfo.line = 0
    /\ Cardinality({x \in Nodes(record) : x.Pos = result.at}) = 2
    /\ result.Errors[1].FromLine = 4 /\ result.Errors[1].FromCol = 1
    /\ result.Errors[1].ToLine = 4 /\ result.Errors[1].ToCol = 2

\* C39 (as claimed): every recorded Error has non-negative from/to lines and
\* columns, so the unsigned 32-bit positions of its diagnostic are the
\* recorded ones
C39_PositionsNonNegative ==
    result.op = "tconfig.Error" =>
        \A i \in 1..Len(result.Errors) :
            LET e == result.Errors[i]
                r == result.diags[i].Range
            IN  /\ e.FromLine >= 0 /\ e.FromCol >= 0 /\ e.ToLine >= 0 /\ e.ToCol >= 0
                /\ \A p \in {<<r.Start.Line, e.FromLine>>, <<r.Start.Character, e.FromCol>>,
                               <<r.End.Line, e.ToLine>>, <<r.End.Character, e.ToCol>>} :
                       p[1].hi = p[2] \div 65536 /\ p[1].lo = p[2] % 65536

====
